---- MODULE Spec2Model ----
(***************************************************************************)
(* A model of tinabot's agent orchestration core:                          *)
(*   - TaskMemory            (src/tinabot/memory.py)                       *)
(*   - MessageStore          (src/tinabot/message_store.py)                *)
(*   - OpenAIAgent           (src/tinabot/openai_agent.py)                 *)
(*   - TinaAgent             (src/tinabot/agent.py)                        *)
(*   - TelegramBot, Scheduler (src/tinabot/telegram.py, scheduler.py)      *)
(*                                                                         *)
(* Python strings are TLA+ strings; None is the distinguished value None.  *)
(* A Task's name and created_at are not modelled: no operation reads them. *)
(***************************************************************************)
EXTENDS Integers, Sequences, FiniteSets, TLC

(***************************************************************************)
(* Bounds of the model                                                     *)
(***************************************************************************)
\* number of task ids create_task can hand out
MaxTasks == 2
\* cap on a task's turn counter
MaxTurns == 2

None == "None"

TaskIds == 1..MaxTasks
\* session pointers a provider issues
SessionIds == {"s1", "s2"}
\* summary texts ("" is what an empty compression result would be)
Summaries == {"S", "S2"}

VARIABLES
    tasks,          \* TaskMemory._tasks : task id -> Task
    tasksFile,      \* data_dir/tasks.json as last written by _save
    summaryFiles,   \* data_dir/summaries/{id}.md : task id -> text
    nextTaskId,     \* the next id secrets.token_hex hands out
    lastOp,         \* the TaskMemory operation performed last, with the table before it
    stream,         \* one adapter-A round trip: chunks to come, chunks consumed, accumulators
    store,          \* the MessageStore: _cache, the list objects, messages/{id}.json
    calls,          \* the calls of the loop in flight or just ended, by who started them
    runs,           \* number of calls started so far
    config,         \* AgentConfig as TinaAgent reads it
    lastResponse,   \* TaskMemory's last-response texts : task id -> text
    chatTasks,      \* TelegramBot._chat_tasks : chat id -> task id
    schedules,      \* data_dir/schedules/{id}.json : file stem -> the JSON object in the file
    now,            \* the wall clock, in minutes
    lastTick,       \* the time of the scheduler's last completed _tick
    sent,           \* the scheduler's executions and what send_fn delivered, in order
    sweep,          \* where Scheduler.run is: asleep, in _tick's loop, or awaiting in _execute
    processing      \* TelegramBot._processing, the processing tasks, and the message handler

memVars == <<tasks, tasksFile, summaryFiles, nextTaskId>>
loopVars == <<store, calls, runs, config, lastResponse, chatTasks>>
\* everything TaskMemory does not own
\* the asyncio tasks app.py and the bot start
taskVars == <<sweep, processing>>
schedVars == <<schedules, now, lastTick, sent, taskVars>>
notMem == <<stream, schedVars, loopVars>>
vars ==
    <<tasks, tasksFile, summaryFiles, nextTaskId, lastOp, stream, store, calls, runs, config,
      lastResponse, chatTasks, schedules, now, lastTick, sent, sweep, processing>>

(***************************************************************************)
(* TaskMemory                                                              *)
(***************************************************************************)
\* Task(id, name, active=True): a fresh task record
NewTask == [session_id |-> None, turn_count |-> 0, summary |-> None, active |-> TRUE]

\* for t in self._tasks.values(): t.active = False
Deactivated(ts) == [i \in DOMAIN ts |-> [ts[i] EXCEPT !.active = FALSE]]

create_task_noDeactivate(ts, id) ==
    [i \in DOMAIN ts \cup {id} |-> IF i = id THEN NewTask ELSE ts[i]]

create_task(ts, id) ==
    [i \in DOMAIN ts \cup {id} |-> IF i = id THEN NewTask ELSE Deactivated(ts)[i]]

set_active(ts, id) ==
    IF id \notin DOMAIN ts THEN ts
    ELSE [Deactivated(ts) EXCEPT ![id].active = TRUE]

\* a variant in which a new session pointer makes the task resumable again
update_session_id_dropsSummary(ts, id, sid) ==
    IF id \notin DOMAIN ts THEN ts
    ELSE [ts EXCEPT ![id].session_id = sid, ![id].summary = None]

update_session_id(ts, id, sid) ==
    IF id \notin DOMAIN ts THEN ts
    ELSE [ts EXCEPT ![id].session_id = sid]

\* a variant that starts the count again once a turn has been counted
increment_turns_reset(ts, id) ==
    IF id \notin DOMAIN ts THEN ts
    ELSE [ts EXCEPT ![id].turn_count = IF @ >= 1 THEN 0 ELSE @ + 1]

\* a variant that counts a turn twice
increment_turns_twice(ts, id) ==
    IF id \notin DOMAIN ts THEN ts
    ELSE [ts EXCEPT ![id].turn_count = @ + 2]

\* TaskMemory.increment_turns
increment_turns(ts, id) ==
    IF id \notin DOMAIN ts THEN ts
    ELSE [ts EXCEPT ![id].turn_count = @ + 1]

save_summary_keepTurns(ts, id, s) ==
    IF id \notin DOMAIN ts THEN ts
    ELSE [ts EXCEPT ![id].summary = s, ![id].session_id = None]

save_summary(ts, id, s) ==
    IF id \notin DOMAIN ts THEN ts
    ELSE [ts EXCEPT ![id].summary = s, ![id].session_id = None, ![id].turn_count = 0]

\* the summary file save_summary writes
save_summary_file(fs, ts, id, s) ==
    IF id \notin DOMAIN ts THEN fs
    ELSE [i \in DOMAIN fs \cup {id} |-> IF i = id THEN s ELSE fs[i]]

delete_task(ts, id) == [i \in DOMAIN ts \ {id} |-> ts[i]]

\* summary_path.unlink() in delete_task
delete_summary_file(fs, ts, id) ==
    IF id \notin DOMAIN ts THEN fs
    ELSE [i \in DOMAIN fs \ {id} |-> fs[i]]

needs_compression(t, threshold) ==
    /\ t.turn_count >= threshold
    /\ t.session_id # None
    /\ t.summary = None

get_active_task(ts) ==
    IF \E i \in DOMAIN ts : ts[i].active
    THEN CHOOSE i \in DOMAIN ts : ts[i].active
    ELSE 0

\* what lastOp records of an operation: its name and arguments, and of the table
\* before it whether the task existed, what that task's record was, and whether
\* another task was active
Op(name, id, arg) ==
    [op |-> name, id |-> id, arg |-> arg,
     existed |-> id \in DOMAIN tasks,
     was |-> IF id \in DOMAIN tasks THEN tasks[id] ELSE NewTask,
     otherActive |-> \E j \in DOMAIN tasks : j # id /\ tasks[j].active]

EmptyMap == [i \in {} |-> None]

\* TaskMemory over an empty data directory
MemoryEmpty ==
    /\ tasks = EmptyMap
    /\ tasksFile = EmptyMap
    /\ summaryFiles = EmptyMap
    /\ nextTaskId = 1
    /\ lastOp = [op |-> "none", id |-> 0, arg |-> None, existed |-> FALSE,
                 was |-> NewTask, otherActive |-> FALSE]

(***************************************************************************)
(* TaskMemory's operations called directly                                 *)
(***************************************************************************)
MemCreateTask ==
    /\ nextTaskId <= MaxTasks
    /\ tasks' = create_task(tasks, nextTaskId)
    /\ tasksFile' = tasks'
    /\ nextTaskId' = nextTaskId + 1
    /\ lastOp' = Op("create_task", nextTaskId, None)
    /\ UNCHANGED <<summaryFiles, notMem>>

MemSetActive ==
    \E id \in TaskIds :
        /\ tasks' = set_active(tasks, id)
        /\ tasksFile' = IF id \in DOMAIN tasks THEN tasks' ELSE tasksFile
        /\ lastOp' = Op("set_active", id, None)
        /\ UNCHANGED <<summaryFiles, nextTaskId, notMem>>

MemUpdateSessionId ==
    \E id \in TaskIds, sid \in SessionIds :
        /\ tasks' = update_session_id(tasks, id, sid)
        /\ tasksFile' = IF id \in DOMAIN tasks THEN tasks' ELSE tasksFile
        /\ lastOp' = Op("update_session_id", id, sid)
        /\ UNCHANGED <<summaryFiles, nextTaskId, notMem>>

MemIncrementTurns ==
    \E id \in TaskIds :
        /\ id \in DOMAIN tasks => tasks[id].turn_count < MaxTurns
        /\ tasks' = increment_turns(tasks, id)
        /\ tasksFile' = IF id \in DOMAIN tasks THEN tasks' ELSE tasksFile
        /\ lastOp' = Op("increment_turns", id, None)
        /\ UNCHANGED <<summaryFiles, nextTaskId, notMem>>

MemSaveSummary ==
    \E id \in TaskIds, s \in Summaries :
        /\ tasks' = save_summary(tasks, id, s)
        /\ summaryFiles' = save_summary_file(summaryFiles, tasks, id, s)
        /\ tasksFile' = IF id \in DOMAIN tasks THEN tasks' ELSE tasksFile
        /\ lastOp' = Op("save_summary", id, s)
        /\ UNCHANGED <<nextTaskId, notMem>>

MemDeleteTask ==
    \E id \in TaskIds :
        /\ tasks' = delete_task(tasks, id)
        /\ summaryFiles' = delete_summary_file(summaryFiles, tasks, id)
        /\ tasksFile' = IF id \in DOMAIN tasks THEN tasks' ELSE tasksFile
        /\ lastOp' = Op("delete_task", id, None)
        /\ UNCHANGED <<nextTaskId, notMem>>

(***************************************************************************)
(* ScheduleStore and Scheduler.  Times are minutes on the wall clock, from *)
(* 1; 0 stands for a time that is not there (last_run None, created_at     *)
(* ""). A cron expression is the period, in minutes, at which it fires.    *)
(***************************************************************************)
\* schedule files in one behaviour, and the last minute of the clock
MaxSchedules == 2
MaxNow == 3

ScheduleIds == 1..MaxSchedules
\* "* * * * *" and "*/2 * * * *"
Crons == {1, 2}

\* the fields of Schedule other than id; those without a default
ScheduleFields == {"name", "cron", "prompt", "chat_id", "enabled", "created_at", "last_run"}
RequiredFields == {"name", "cron", "prompt", "chat_id"}

\* the file SCHEDULING_PROMPT_TEMPLATE tells the model to write
DocumentedFile(cron, chat, once, created_at) ==
    [name |-> "reminder", cron |-> cron, prompt |-> "drink water", chat_id |-> chat,
     enabled |-> TRUE, once |-> once, created_at |-> created_at]

\* Schedule.to_dict, as _save writes it
to_dict(s) == [k \in ScheduleFields |-> s[k]]

\* ScheduleStore.add: the Schedule it makes
NewSchedule(id, cron, chat, created_at) ==
    [id |-> id, name |-> "reminder", cron |-> cron, prompt |-> "drink water",
     chat_id |-> chat, enabled |-> TRUE, created_at |-> created_at, last_run |-> 0]

\* ScheduleStore._load: Schedule(id=path.stem, **data); a key that is not a
\* field, or a missing field without default, raises TypeError, and _load
\* returns None (here <<>>)
load(id, data) ==
    IF RequiredFields \subseteq DOMAIN data /\ DOMAIN data \subseteq ScheduleFields
    THEN <<[id |-> id, name |-> data.name, cron |-> data.cron, prompt |-> data.prompt,
            chat_id |-> data.chat_id,
            enabled |-> IF "enabled" \in DOMAIN data THEN data.enabled ELSE TRUE,
            created_at |-> IF "created_at" \in DOMAIN data THEN data.created_at ELSE 0,
            last_run |-> IF "last_run" \in DOMAIN data THEN data.last_run ELSE 0]>>
    ELSE <<>>

\* ScheduleStore.list: the schedules that load, in the order of their paths
RECURSIVE ListFrom(_, _)
ListFrom(fs, id) ==
    IF id > MaxSchedules THEN <<>>
    ELSE (IF id \in DOMAIN fs THEN load(id, fs[id]) ELSE <<>>) \o ListFrom(fs, id + 1)
list(fs) == ListFrom(fs, 1)

\* ScheduleStore.update_last_run
update_last_run(fs, id, timestamp) ==
    IF id \in DOMAIN fs /\ load(id, fs[id]) # <<>>
    THEN [fs EXCEPT ![id] = to_dict([load(id, fs[id])[1] EXCEPT !.last_run = timestamp])]
    ELSE fs

\* croniter(cron, base).get_next(): the first firing time after base
NextFire(cron, base) == ((base \div cron) + 1) * cron

\* Scheduler._is_due at time t
is_due(s, t) ==
    LET base == IF s.last_run # 0 THEN s.last_run ELSE s.created_at
    IN  base # 0 /\ NextFire(s.cron, base) <= t

\* Scheduler._tick at time t over the schedules list() gave it: each that is
\* enabled and due is executed (_execute: the response to its prompt is sent
\* to its chat, then update_last_run), in the order of the list
RECURSIVE Sweep(_, _, _, _)
Sweep(todo, fs, out, t) ==
    IF todo = <<>> THEN [files |-> fs, sent |-> out]
    ELSE LET s == Head(todo)
         IN  IF s.enabled /\ is_due(s, t)
             THEN Sweep(Tail(todo), update_last_run(fs, s.id, t),
                        Append(out, [id |-> s.id, chat_id |-> s.chat_id,
                                     prompt |-> s.prompt, at |-> t]), t)
             ELSE Sweep(Tail(todo), fs, out, t)

\* TelegramBot.__init__: _processing (chat id -> processing task, 0 for no
\* entry) is empty, no processing task was created, no handler is suspended
NoProcessing ==
    [entry |-> [chat \in {"chat1", "chat2"} |-> 0], procs |-> <<>>,
     handler |-> [chat |-> None, pc |-> "idle", proc |-> 0]]

\* Scheduler.run asleep between two ticks: no list in hand, no execution begun
Asleep == [todo |-> <<>>, pc |-> "sleep", started |-> 0]

SchedulerIdle ==
    /\ schedules = EmptyMap
    /\ now = 1
    /\ lastTick = 0
    /\ sent = <<>>
    /\ sweep = Asleep
    /\ processing = NoProcessing

(***************************************************************************)
(* Adapter A: OpenAIAgent._stream_completion                               *)
(*                                                                         *)
(* A chunk is [usage, choices, content, tool_calls]: usage is <<>> (None)  *)
(* or <<[prompt_tokens, completion_tokens]>>; choices tells whether        *)
(* chunk.choices is non-empty; content is the text delta ("" when absent); *)
(* tool_calls is the sequence of tool-call deltas [index, id, name,        *)
(* arguments], with "" for a field the delta does not supply.              *)
(***************************************************************************)
\* most chunks of one streamed response
MaxChunks == 2
\* most tool-call deltas in one chunk
MaxFragments == 2

Fragment(i, id, name, arguments) ==
    [index |-> i, id |-> id, name |-> name, arguments |-> arguments]

TextChunk(t) == [usage |-> <<>>, choices |-> TRUE, content |-> t, tool_calls |-> <<>>]
ToolChunk(fs) == [usage |-> <<>>, choices |-> TRUE, content |-> "", tool_calls |-> fs]
UsageChunk(i, o) ==
    [usage |-> <<[prompt_tokens |-> i, completion_tokens |-> o]>>,
     choices |-> FALSE, content |-> "", tool_calls |-> <<>>]

NewToolCall == [id |-> "", name |-> "", arguments |-> ""]

\* lines 245-259: one tool-call delta merged into tool_calls_by_index
MergeFragment_overwrite(byIndex, f) ==
    LET cur == IF f.index \in DOMAIN byIndex THEN byIndex[f.index] ELSE NewToolCall
        new == [id |-> IF f.id # "" THEN f.id ELSE cur.id,
                name |-> IF f.name # "" THEN f.name ELSE cur.name,
                arguments |-> IF f.arguments # "" THEN f.arguments ELSE cur.arguments]
    IN  [i \in DOMAIN byIndex \cup {f.index} |-> IF i = f.index THEN new ELSE byIndex[i]]

MergeFragment(byIndex, f) ==
    LET cur == IF f.index \in DOMAIN byIndex THEN byIndex[f.index] ELSE NewToolCall
        new == [id |-> IF f.id # "" THEN f.id ELSE cur.id,
                name |-> IF f.name # "" THEN f.name ELSE cur.name,
                arguments |-> IF f.arguments # "" THEN cur.arguments \o f.arguments
                                                  ELSE cur.arguments]
    IN  [i \in DOMAIN byIndex \cup {f.index} |-> IF i = f.index THEN new ELSE byIndex[i]]

RECURSIVE MergeFragments(_, _)
MergeFragments(byIndex, fs) ==
    IF fs = <<>> THEN byIndex
    ELSE MergeFragments(MergeFragment(byIndex, Head(fs)), Tail(fs))

\* the accumulators of _stream_completion before the first chunk (lines 207-209)
NewAccumulator ==
    [usage |-> [input |-> 0, output |-> 0], byIndex |-> [i \in {} |-> NewToolCall], text |-> ""]

\* lines 225-227: a usage frame overwrites the round trip's usage
ChunkUsage(usage, chunk) ==
    IF chunk.usage = <<>> THEN usage
    ELSE [input |-> chunk.usage[1].prompt_tokens,
          output |-> chunk.usage[1].completion_tokens]

\* lines 223-259: the body of "async for chunk in stream"
ConsumeChunk(acc, chunk) ==
    LET usage == ChunkUsage(acc.usage, chunk)
    IN  IF ~chunk.choices THEN [acc EXCEPT !.usage = usage]
        ELSE [text |-> acc.text \o chunk.content,
              byIndex |-> MergeFragments(acc.byIndex, chunk.tool_calls),
              usage |-> usage]

RECURSIVE ConsumeChunks(_, _)
ConsumeChunks(acc, chunks) ==
    IF chunks = <<>> THEN acc
    ELSE ConsumeChunks(ConsumeChunk(acc, Head(chunks)), Tail(chunks))

Min(S) == CHOOSE x \in S : \A y \in S : x <= y

\* sorted(tool_calls_by_index)
RECURSIVE sorted(_)
sorted(S) == IF S = {} THEN <<>> ELSE <<Min(S)>> \o sorted(S \ {Min(S)})

\* lines 264-267: the indexed tool calls as a list ordered by index
ResolveToolCalls(byIndex) ==
    LET order == sorted(DOMAIN byIndex)
    IN  [n \in 1..Len(order) |-> byIndex[order[n]]]

\* (text, tool_calls, usage) of one round trip over the chunks of its stream
StreamCompletion(chunks) ==
    LET acc == ConsumeChunks(NewAccumulator, chunks)
    IN  [text |-> acc.text, tool_calls |-> ResolveToolCalls(acc.byIndex), usage |-> acc.usage]

(***************************************************************************)
(* Adapter B: OpenAIAgent._stream_responses                                *)
(*                                                                         *)
(* An event is one "data: " line of the response: [type |-> "malformed"]   *)
(* for a payload that is not JSON, otherwise the decoded event.            *)
(***************************************************************************)
TextDelta(t) == [type |-> "response.output_text.delta", delta |-> t]
ItemDone(item) == [type |-> "response.output_item.done", item |-> item]
Completed(id, i, o) ==
    [type |-> "response.completed",
     response |-> [id |-> id, usage |-> [input_tokens |-> i, output_tokens |-> o]]]
FunctionCallItem(id, name, arguments) ==
    [type |-> "function_call", call_id |-> id, name |-> name, arguments |-> arguments]
MessageItem(t) == [type |-> "message", role |-> "assistant", content |-> t]

NewResponse ==
    [usage |-> [input |-> 0, output |-> 0], text |-> "", func_calls |-> <<>>,
     response_id |-> None, output_items |-> <<>>]

\* lines 440-499: the body of "async for line in resp.aiter_lines()"
ConsumeEvent(acc, ev) ==
    IF ev.type = "malformed" THEN acc
    ELSE IF ev.type = "response.output_text.delta" THEN
        [acc EXCEPT !.text = @ \o ev.delta]
    ELSE IF ev.type = "response.output_item.done" THEN
        [acc EXCEPT !.output_items = Append(@, ev.item),
                    !.func_calls =
                        IF ev.item.type = "function_call"
                        THEN Append(@, [call_id |-> ev.item.call_id, name |-> ev.item.name,
                                        arguments |-> ev.item.arguments])
                        ELSE @]
    ELSE IF ev.type = "response.completed" THEN
        [acc EXCEPT !.response_id = ev.response.id,
                    !.usage = [input |-> ev.response.usage.input_tokens,
                               output |-> ev.response.usage.output_tokens]]
    ELSE acc

RECURSIVE ConsumeEvents(_, _)
ConsumeEvents(acc, evs) ==
    IF evs = <<>> THEN acc
    ELSE ConsumeEvents(ConsumeEvent(acc, Head(evs)), Tail(evs))

\* the 'data: ' lines of a stream whose payload is not JSON
Malformed(events) == Cardinality({i \in DOMAIN events : events[i].type = "malformed"})

\* (text, func_calls, usage, response_id, output_items) of one round trip
StreamResponses(events) == ConsumeEvents(NewResponse, events)

(***************************************************************************)
(* History entries: the dicts the loops append                             *)
(***************************************************************************)
\* "\n".join(parts)
RECURSIVE Join(_)
Join(parts) ==
    IF parts = <<>> THEN ""
    ELSE IF Len(parts) = 1 THEN parts[1]
    ELSE parts[1] \o "\n" \o Join(Tail(parts))

\* dict.get(k)
Get(e, k) == IF k \in DOMAIN e THEN e[k] ELSE None

SystemEntry(p) == [role |-> "system", content |-> p]
UserEntry(m) == [role |-> "user", content |-> m]
AssistantEntry(t) == [role |-> "assistant", content |-> t]
\* lines 149-164: the assistant message carrying the round's tool calls
AssistantCalls(t, tcs) ==
    [role |-> "assistant",
     content |-> IF t # "" THEN t ELSE None,
     tool_calls |-> [n \in 1..Len(tcs) |->
                        [id |-> tcs[n].id, type |-> "function",
                         function |-> [name |-> tcs[n].name, arguments |-> tcs[n].arguments]]]]
ToolEntry(id, content) == [role |-> "tool", tool_call_id |-> id, content |-> content]
OutputEntry(id, output) == [type |-> "function_call_output", call_id |-> id, output |-> output]

(***************************************************************************)
(* MessageStore.  A store is [cache, lists, disk]: cache maps a task id to *)
(* the list object _cache holds for it, lists maps a list object to its    *)
(* entries (run and run_codex append to the cached list in place), disk    *)
(* maps a task id to the entries of messages/{id}.json.                    *)
(***************************************************************************)
Put(f, k, v) == [x \in DOMAIN f \cup {k} |-> IF x = k THEN v ELSE f[x]]
Drop(f, k) == [x \in DOMAIN f \ {k} |-> f[x]]

EmptyStore == [cache |-> EmptyMap, lists |-> EmptyMap, disk |-> EmptyMap]

\* a list object not in use
NewList(st) == CHOOSE o \in 1..(Cardinality(DOMAIN st.lists) + 1) : o \notin DOMAIN st.lists

\* get_messages: [store, obj], the store after the call and the list object returned
get_messages(st, t) ==
    IF t \in DOMAIN st.cache THEN [store |-> st, obj |-> st.cache[t]]
    ELSE LET o == NewList(st)
             loaded == IF t \in DOMAIN st.disk THEN st.disk[t] ELSE <<>>
         IN  [store |-> [st EXCEPT !.cache = Put(@, t, o), !.lists = Put(@, o, loaded)],
              obj |-> o]

\* list.append on a list object
append(st, o, e) == [st EXCEPT !.lists[o] = Append(@, e)]

RECURSIVE extend(_, _, _)
extend(st, o, es) ==
    IF es = <<>> THEN st ELSE extend(append(st, o, Head(es)), o, Tail(es))

\* _persist
persist(st, t) ==
    [st EXCEPT !.disk = Put(@, t, IF t \in DOMAIN st.cache THEN st.lists[st.cache[t]] ELSE <<>>)]

set_messages(st, t, o) == persist([st EXCEPT !.cache = Put(@, t, o)], t)

\* append_message
append_message(st, t, e) ==
    LET g == get_messages(st, t) IN persist(append(g.store, g.obj, e), t)

\* the last n entries of s
LastN(s, n) == IF Len(s) <= n THEN s ELSE SubSeq(s, Len(s) - n + 1, Len(s))

\* a variant in which a budget of 0 keeps nothing
NegSlice_zeroKeepsNone(s, n) == LastN(s, n)

\* s[-n:] for n >= 0: -0 is 0, so s[-0:] is s[0:], all of s
NegSlice(s, n) == IF n = 0 THEN s ELSE LastN(s, n)

\* system + rest[-max_messages:]
Trimmed(msgs, max_messages) ==
    LET hasSystem == msgs # <<>> /\ Get(msgs[1], "role") = "system"
        system == IF hasSystem THEN <<msgs[1]>> ELSE <<>>
        rest == IF hasSystem THEN Tail(msgs) ELSE msgs
    IN  system \o NegSlice(rest, max_messages)

trim_to_budget(st, t, max_messages) ==
    LET g == get_messages(st, t)
        msgs == g.store.lists[g.obj]
        o == NewList(g.store)
    IN  IF Len(msgs) <= max_messages THEN g.store
        ELSE persist([g.store EXCEPT !.lists = Put(@, o, Trimmed(msgs, max_messages)),
                                     !.cache = Put(@, t, o)], t)

clear(st, t) == [st EXCEPT !.cache = Drop(@, t), !.disk = Drop(@, t)]

\* list objects nothing refers to any more are dropped
Collect(st, refs) ==
    LET live == {st.cache[t] : t \in DOMAIN st.cache} \cup refs
    IN  [st EXCEPT !.lists = [o \in DOMAIN st.lists \cap live |-> st.lists[o]]]

\* what get_messages returns for a task
History(st, t) ==
    IF t \in DOMAIN st.cache THEN st.lists[st.cache[t]]
    ELSE IF t \in DOMAIN st.disk THEN st.disk[t] ELSE <<>>

(***************************************************************************)
(* What the provider sends.  A script fixes, for one call of the loop, how *)
(* many tool calls a tool-calling round trip reports, the text that comes  *)
(* with them, and the usage frames of every round trip; whether a round    *)
(* trip reports tool calls, text only, or nothing is chosen per round trip.*)
(***************************************************************************)
\* most tool calls one round trip reports
MaxTools == 2

\* rounds: the provider asks for tools in at most that many round trips of a call;
\* tool: the name of the tool it asks for;
\* arguments: the arguments payload of every tool call, in the two deltas it
\* arrives in on adapter A
Script(k, t, frames, rounds) ==
    [k |-> k, arguments |-> <<"{", "}">>, text |-> t, frames |-> frames, rounds |-> rounds,
     tool |-> "Read"]
NoScript == Script(0, "", <<>>, 0)
ScriptsOf(rounds) ==
    {Script(1, "wip", <<<<1, 1>>, <<5, 2>>>>, rounds),
     Script(MaxTools, "", <<>>, rounds)}

\* payloads a provider can send as the arguments of a tool call: an object,
\* text that is not JSON, JSON that is not an object
Payloads == {<<"{", "}">>, <<"{", "">>, <<"[", "]">>}
ToolScripts(rounds) ==
    {[sc EXCEPT !.arguments = p] : sc \in ScriptsOf(rounds), p \in Payloads}

Kinds == {"tools", "text", "empty"}

\* the id the provider gives tool call idx of round trip number n of call r
CallId(r, n, idx) == "call_" \o ToString(r) \o "_" \o ToString(n) \o "_" \o ToString(idx)

\* the usage the provider reported last in a round trip (nothing: no usage)
Reported(sc) ==
    IF sc.frames = <<>> THEN [input |-> 0, output |-> 0]
    ELSE [input |-> sc.frames[Len(sc.frames)][1], output |-> sc.frames[Len(sc.frames)][2]]

UsageChunks(sc) == [n \in 1..Len(sc.frames) |-> UsageChunk(sc.frames[n][1], sc.frames[n][2])]

\* adapter A: the chunks of one round trip; the arguments of each tool call
\* arrive in two deltas, the calls interleaved
ChunksOf(sc, kind, r, n) ==
    (IF kind = "tools"
     THEN (IF sc.text # "" THEN <<TextChunk(sc.text)>> ELSE <<>>)
          \o <<ToolChunk([i \in 1..sc.k |->
                              Fragment(i - 1, CallId(r, n, i - 1), sc.tool, sc.arguments[1])]),
               ToolChunk([i \in 1..sc.k |-> Fragment(i - 1, "", "", sc.arguments[2])])>>
     ELSE IF kind = "text" THEN <<TextChunk("hi "), TextChunk("there")>>
     ELSE <<>>)
    \o UsageChunks(sc)

\* adapter B: the events of one round trip
EventsOf(sc, kind, r, n) ==
    (IF kind = "tools"
     THEN (IF sc.text # "" THEN <<TextDelta(sc.text), ItemDone(MessageItem(sc.text))>> ELSE <<>>)
          \o [i \in 1..sc.k |->
                 ItemDone(FunctionCallItem(CallId(r, n, i - 1), sc.tool,
                                           sc.arguments[1] \o sc.arguments[2]))]
     ELSE IF kind = "text"
     THEN <<TextDelta("hi "), [type |-> "malformed"], TextDelta("there"),
            ItemDone(MessageItem("hi there"))>>
     ELSE <<>>)
    \o (IF sc.frames = <<>> THEN <<>>
        ELSE <<Completed("resp_" \o ToString(r) \o "_" \o ToString(n),
                         Reported(sc).input, Reported(sc).output)>>)

(***************************************************************************)
(* OpenAIAgent.run and OpenAIAgent.run_codex.  A call of the loop is a     *)
(* record: pc says where the coroutine is suspended ("stream": awaiting    *)
(* _stream_completion / _stream_responses, "tool": awaiting execute_tool), *)
(* obj is the list object it holds (messages / history), iteration the     *)
(* number of loop iterations done, pending the tool calls still to run,    *)
(* text the text of the last round trip, result the OpenAIResult.          *)
(***************************************************************************)
MAX_TOOL_ITERATIONS == 25
\* the max_messages run and run_codex pass to trim_to_budget
MAX_MESSAGES == 100

Notice == "\n\n(Reached maximum tool call iterations.)"
\* what an executor returns
ToolResult == "ok"

\* json.loads of an arguments payload: the value, or JSONDecodeError
json_loads(s) ==
    IF s = "{}" THEN [error |-> None, value |-> [type |-> "dict"]]
    ELSE IF s = "[]" THEN [error |-> None, value |-> [type |-> "list"]]
    ELSE [error |-> "JSONDecodeError", value |-> None]

\* lines 170-173 and 361-364: args = json.loads(arguments), {} on JSONDecodeError
ParseArguments(arguments) ==
    IF json_loads(arguments).error = "JSONDecodeError" THEN [type |-> "dict"]
    ELSE json_loads(arguments).value

\* AgentConfig.allowed_tools as config.py sets it
DefaultTools ==
    {"Read", "Write", "Edit", "Bash", "Glob", "Grep", "WebSearch", "WebFetch", "Task"}

\* the keys of TOOL_SCHEMAS
ToolSchemas == {"Bash", "Read", "Write", "Glob", "Grep", "WebFetch"}

\* get_tool_schemas and get_codex_tool_schemas: the names of the tools offered
\* to the provider
get_tool_schemas(allowed_tools) == allowed_tools \cap ToolSchemas

\* the tools that have an executor
Executors == {"Bash", "Read", "Write", "Glob", "Grep", "WebFetch"}

\* execute_tool(name, arguments, cwd): every executor begins with
\* arguments.get(...), outside its try, which raises AttributeError when
\* arguments is not a dict
execute_tool(name, arguments) ==
    IF name \notin Executors
    THEN [error |-> None, result |-> "Error: unknown tool '" \o name \o "'."]
    ELSE IF arguments.type # "dict"
    THEN [error |-> "AttributeError", result |-> None]
    ELSE [error |-> None, result |-> ToolResult]

OpenAIResult ==
    [text |-> "", input_tokens |-> 0, output_tokens |-> 0, response_id |-> None,
     num_turns |-> 0, tool_uses |-> <<>>]

\* for iteration in range(MAX_TOOL_ITERATIONS): the loop goes on
LoopGoesOn_oneMore(iteration) == iteration <= MAX_TOOL_ITERATIONS

LoopGoesOn(iteration) == iteration < MAX_TOOL_ITERATIONS

\* result += usage of one round trip (lines 135-137, 341-343)
AddUsage(result, usage) ==
    [result EXCEPT !.input_tokens = @ + usage.input,
                   !.output_tokens = @ + usage.output,
                   !.num_turns = @ + 1]

\* run, lines 99-127: up to the first round trip
RunBegin(st, t, message, system_prompt) ==
    LET g == get_messages(st, t)
        o == g.obj
        messages == g.store.lists[o]
        st1 == IF messages = <<>> THEN append(g.store, o, SystemEntry(system_prompt))
               ELSE IF Get(messages[1], "role") = "system"
                    THEN [g.store EXCEPT !.lists[o][1].content = system_prompt]
                    ELSE g.store
    IN  [store |-> set_messages(append(st1, o, UserEntry(message)), t, o), obj |-> o]

\* run, line 190, and the return
RunEnd(st, c) ==
    [store |-> trim_to_budget(st, c.task, MAX_MESSAGES), call |-> [c EXCEPT !.pc = "finished"]]

\* run, lines 183-187: the else branch of the loop when the iterations are used up
RunNext(st, c) ==
    IF LoopGoesOn(c.iteration) THEN [store |-> st, call |-> [c EXCEPT !.pc = "stream"]]
    ELSE RunEnd(st, [c EXCEPT !.result.text = c.text \o Notice])

\* run, lines 131-165: one round trip has streamed to its end
RunRound(st, c, chunks) ==
    LET r == StreamCompletion(chunks)
        c1 == [c EXCEPT !.result = AddUsage(@, r.usage), !.text = r.text]
    IN  IF r.tool_calls = <<>>
        THEN RunEnd(IF r.text # ""
                    THEN set_messages(append(st, c.obj, AssistantEntry(r.text)), c.task, c.obj)
                    ELSE st,
                    [c1 EXCEPT !.result.text = r.text])
        ELSE [store |-> append(st, c.obj, AssistantCalls(r.text, r.tool_calls)),
              call |-> [c1 EXCEPT !.pc = "tool", !.pending = r.tool_calls]]

\* a loop that dispatches the last pending tool call first
RunTool_lastFirst(st, c) ==
    LET tc == c.pending[Len(c.pending)]
        st1 == append(st, c.obj, ToolEntry(tc.id, ToolResult))
        c1 == [c EXCEPT !.pending = SubSeq(@, 1, Len(@) - 1),
                        !.result.tool_uses = Append(@, tc.name)]
    IN  IF c1.pending # <<>> THEN [store |-> st1, call |-> c1]
        ELSE RunNext(set_messages(st1, c.task, c.obj), [c1 EXCEPT !.iteration = @ + 1])

\* run, lines 168-182: execute_tool has returned for the first pending tool call
RunTool(st, c) ==
    LET tc == Head(c.pending)
        tool_result == execute_tool(tc.name, ParseArguments(tc.arguments))
        st1 == append(st, c.obj, ToolEntry(tc.id, tool_result.result))
        c1 == [c EXCEPT !.pending = Tail(@), !.result.tool_uses = Append(@, tc.name)]
    IN  IF tool_result.error # None
        THEN [store |-> st, call |-> [c EXCEPT !.pc = "raised", !.error = tool_result.error]]
        ELSE IF c1.pending # <<>> THEN [store |-> st1, call |-> c1]
        ELSE RunNext(set_messages(st1, c.task, c.obj), [c1 EXCEPT !.iteration = @ + 1])

\* run_codex, lines 314-327: up to the first round trip (input_items, the copy of
\* the history sent to the provider, is not kept: no operation reads it back)
CodexBegin(st, t, message) ==
    LET g == get_messages(st, t)
    IN  [store |-> append(g.store, g.obj, UserEntry(message)), obj |-> g.obj]

\* run_codex, lines 380-381, and the return
CodexEnd(st, c) ==
    [store |-> trim_to_budget(set_messages(st, c.task, c.obj), c.task, MAX_MESSAGES),
     call |-> [c EXCEPT !.pc = "finished"]]

\* run_codex, lines 374-377
CodexNext(st, c) ==
    IF LoopGoesOn(c.iteration) THEN [store |-> st, call |-> [c EXCEPT !.pc = "stream"]]
    ELSE CodexEnd(st, [c EXCEPT !.result.text = c.text \o Notice])

\* run_codex, lines 331-357: one round trip has streamed to its end
CodexRound(st, c, events) ==
    LET r == StreamResponses(events)
        c1 == [c EXCEPT !.result = AddUsage(@, r.usage), !.text = r.text,
                        !.result.response_id =
                            IF r.response_id # None THEN r.response_id ELSE @]
    IN  IF r.func_calls = <<>>
        THEN CodexEnd(IF r.text # "" THEN append(st, c.obj, AssistantEntry(r.text)) ELSE st,
                      [c1 EXCEPT !.result.text = r.text])
        ELSE [store |-> extend(st, c.obj, r.output_items),
              call |-> [c1 EXCEPT !.pc = "tool", !.pending = r.func_calls]]

\* run_codex, lines 359-373: execute_tool has returned for the first pending call
CodexTool(st, c) ==
    LET fc == Head(c.pending)
        tool_result == execute_tool(fc.name, ParseArguments(fc.arguments))
        st1 == append(st, c.obj, OutputEntry(fc.call_id, tool_result.result))
        c1 == [c EXCEPT !.pending = Tail(@), !.result.tool_uses = Append(@, fc.name)]
    IN  IF tool_result.error # None
        THEN [store |-> st, call |-> [c EXCEPT !.pc = "raised", !.error = tool_result.error]]
        ELSE IF c1.pending # <<>> THEN [store |-> st1, call |-> c1]
        ELSE CodexNext(st1, [c1 EXCEPT !.iteration = @ + 1])

NoStream == [pc |-> "closed", tool_calls |-> <<>>, acc |-> NewAccumulator, chunks |-> <<>>,
             consumed |-> <<>>]

(***************************************************************************)
(* TinaAgent: what process does around the loop                            *)
(***************************************************************************)
AgentResponse ==
    [session_id |-> None, text |-> "", input_tokens |-> 0, output_tokens |-> 0, num_turns |-> 0,
     tool_uses |-> <<>>]

TimeoutNotice == "Request timed out. You can retry or send a simpler request."
ErrorText(e) == "Error: " \o e
\* the characters of the response body the error of _stream_responses keeps
ERROR_BODY_LIMIT == 500

\* s[:n]
Prefix(s, n) == IF Len(s) <= n THEN s ELSE SubSeq(s, 1, n)

\* s repeated n times
RECURSIVE Repeat(_, _)
Repeat(s, n) ==
    IF n = 0 THEN ""
    ELSE IF n % 2 = 0 THEN LET half == Repeat(s, n \div 2) IN half \o half
    ELSE s \o Repeat(s, n - 1)

\* answers of the adapter-B endpoint that are not 200: statuses, and bodies up
\* to one character longer than the error keeps
Statuses == {401, 500}
Bodies == {"", "quota exceeded", Repeat("x", ERROR_BODY_LIMIT + 1)}

\* _stream_responses, lines 435-438: the message of the RuntimeError
ResponsesError(status, body) ==
    "Responses API error (" \o ToString(status) \o "): " \o Prefix(body, ERROR_BODY_LIMIT)

\* run_codex takes no images argument
CodexTypeError == "run_codex() got an unexpected keyword argument 'images'"

\* TaskMemory.get_summary
get_summary(ts, fs, t) ==
    IF t \in DOMAIN ts /\ ts[t].summary \notin {None, ""} THEN ts[t].summary
    ELSE IF t \in DOMAIN fs THEN fs[t] ELSE None

\* TaskMemory.get_last_response and save_last_response: the text kept per task
get_last_response(lr, t) == IF t \in DOMAIN lr THEN lr[t] ELSE None
save_last_response(lr, t, text) == Put(lr, t, text)

\* a variant that resumes whenever there is a session pointer
Resumable_ignoresSummary(task) == task.session_id \notin {None, ""}

\* the session of the task can be resumed
Resumable(task) == task.session_id \notin {None, ""} /\ task.summary = None

\* the texts of the prompt's blocks, shortened
IDENTITY_PROMPT == "You are Tina."
IDENTITY_PROMPT_OPENAI == IDENTITY_PROMPT \o " Use the tools."
SCHEDULING_PROMPT_TEMPLATE(chat_id) == "## Scheduled Tasks for chat_id " \o chat_id
CONTEXT_INTRO ==
    "This is a continuation of a previous conversation. The session history is "
    \o "not available, but here is what we know:"

\* SkillsLoader.build_system_prompt_section when there are skills ("" when
\* there are none)
SkillsSection == "<skills>weather</skills>"

\* sep.join(parts)
RECURSIVE JoinWith(_, _)
JoinWith(parts, sep) ==
    IF parts = <<>> THEN ""
    ELSE IF Len(parts) = 1 THEN parts[1]
    ELSE parts[1] \o sep \o JoinWith(Tail(parts), sep)

\* a variant that injects the context whether the session can be resumed or not
build_system_prompt_alwaysContext(task, summary, last_resp, skills_section, chat_id, is_claude) ==
    LET context_parts ==
            (IF summary \notin {None, ""}
             THEN <<"## Conversation Summary\n" \o summary>> ELSE <<>>)
            \o (IF last_resp \notin {None, ""}
                THEN <<"## Your Last Response (for reference)\n" \o last_resp>> ELSE <<>>)
    IN  JoinWith(<<IF is_claude THEN IDENTITY_PROMPT ELSE IDENTITY_PROMPT_OPENAI>>
                 \o (IF skills_section # "" THEN <<skills_section>> ELSE <<>>)
                 \o (IF chat_id # None THEN <<SCHEDULING_PROMPT_TEMPLATE(chat_id)>> ELSE <<>>)
                 \o (IF context_parts # <<>>
                     THEN <<"<previous-context>\n" \o CONTEXT_INTRO \o "\n\n"
                            \o JoinWith(context_parts, "\n\n") \o "\n</previous-context>">>
                     ELSE <<>>),
                 "\n\n")

\* _build_system_prompt(task, chat_id); summary and last_resp are what
\* get_summary and get_last_response return for the task, skills_section what
\* the skills loader returns
build_system_prompt(task, summary, last_resp, skills_section, chat_id, is_claude) ==
    LET identity == IF is_claude THEN IDENTITY_PROMPT ELSE IDENTITY_PROMPT_OPENAI
        parts1 == <<identity>>
        parts2 == IF skills_section # "" THEN Append(parts1, skills_section) ELSE parts1
        parts3 == IF chat_id # None
                  THEN Append(parts2, SCHEDULING_PROMPT_TEMPLATE(chat_id)) ELSE parts2
        context_parts ==
            (IF summary \notin {None, ""}
             THEN <<"## Conversation Summary\n" \o summary>> ELSE <<>>)
            \o (IF last_resp \notin {None, ""}
                THEN <<"## Your Last Response (for reference)\n" \o last_resp>> ELSE <<>>)
        parts4 == IF ~Resumable(task) /\ context_parts # <<>>
                  THEN Append(parts3, "<previous-context>\n" \o CONTEXT_INTRO \o "\n\n"
                                      \o JoinWith(context_parts, "\n\n")
                                      \o "\n</previous-context>")
                  ELSE parts3
    IN  JoinWith(parts4, "\n\n")

\* _build_system_prompt for task t of the task table ts
SystemPrompt(ts, fs, lr, t, chat) ==
    build_system_prompt(ts[t], get_summary(ts, fs, t), get_last_response(lr, t),
                        config.skills_section, chat, config.path = "claude")

\* _build_options, lines 356-359: the resume pointer of the query's options
Resume(task) == IF Resumable(task) THEN task.session_id ELSE None

\* _process_openai, lines 651-671: the response made of how the adapter's loop ended
OpenAIResponse(c) ==
    IF c.pc = "finished"
    THEN [AgentResponse EXCEPT !.text = c.result.text,
                               !.input_tokens = c.result.input_tokens,
                               !.output_tokens = c.result.output_tokens,
                               !.num_turns = c.result.num_turns,
                               !.tool_uses = c.result.tool_uses]
    ELSE IF c.pc = "timeout" THEN [AgentResponse EXCEPT !.text = TimeoutNotice]
    ELSE [AgentResponse EXCEPT !.text = ErrorText(c.error)]

\* process, lines 561-571: the response of the Claude path
ClaudeResponse(c) ==
    LET parts == IF c.pc = "timeout" THEN Append(c.parts, TimeoutNotice)
                 ELSE IF c.pc = "raised" THEN Append(c.parts, ErrorText(c.error))
                 ELSE c.parts
    IN  [c.response EXCEPT !.text = Join(parts)]

(***************************************************************************)
(* The calls in flight, their steps, and what can end them                 *)
(***************************************************************************)
\* who starts calls: two Telegram chats, the scheduler, and a direct caller
\* (the console, or a caller of run / run_codex)
Chats == {"chat1", "chat2"}
Callers == Chats \cup {"scheduler"}
Slots == Callers \cup {"direct"}

\* Telegram users; an update may also carry no user (None)
Users == {"u1", "u2"}
Senders == Users \cup {None}

Messages == {"hello"}
Prompts == {"P1", "P2"}
Paths == {"claude", "A", "B"}

NoCut == [calls |-> {}, results |-> {}]
NoUsage == [input |-> 0, output |-> 0, trips |-> 0]

\* A call: entry is what was called ("run", "run_codex", "process"), path the
\* provider path it takes, stage and parts the place in the Claude runtime's
\* message stream and the text_parts collected from it, response the
\* AgentResponse, ended how process came to its return ("finished", "raised",
\* "timeout").  The other fields record, for the properties: found and
\* before, the Task and the history the call found; reported, the usage the
\* provider reported over the call's round trips; oneTool and textOnly, whether
\* every round trip so far reported exactly one tool call, or text and no tool
\* call; cut, the ids of the call and result records the call's trim_to_budget
\* removed; executed, the ids of the tool calls execute_tool has returned for;
\* items, the output items the adapter-B streams of the call completed;
\* answer, the status and body of an answer of the adapter-B endpoint that
\* was not 200; instructions, the system_prompt a caller passed to run or
\* run_codex, or the one process built; resume, the session pointer in the
\* options of the Claude query; malformed, the number of 'data: ' lines with a
\* payload that is not JSON in the adapter-B streams of the call.
IdleCall ==
    [chat |-> None, entry |-> None, pc |-> "idle", text |-> "", response |-> AgentResponse,
     parts |-> <<>>, obj |-> 0, error |-> None, result |-> OpenAIResult, iteration |-> 0,
     task |-> 0, pending |-> <<>>, path |-> None, run |-> 0, script |-> NoScript,
     stage |-> None, ended |-> None, found |-> NewTask, before |-> <<>>, reported |-> NoUsage,
     oneTool |-> TRUE, textOnly |-> TRUE, cut |-> NoCut, executed |-> {}, items |-> <<>>,
     answer |-> <<>>, instructions |-> None, resume |-> None, malformed |-> 0]

\* tasks_file: whether tasks.json can be written (write_text in _save raises
\* OSError when it cannot)
\* allowed_users: the Telegram allowlist
\* skills_section: what SkillsLoader.build_system_prompt_section returns
\* allowed_tools: the tool allowlist
DefaultConfig ==
    [allowed_tools |-> DefaultTools, skills_section |-> "", path |-> "A",
     compress_after_turns |-> 1, tasks_file |-> "writable", allowed_users |-> Users]

\* TaskMemory._save raises
SaveRaises == config.tasks_file # "writable"

LoopIdle ==
    /\ store = EmptyStore
    /\ calls = [s \in Slots |-> IdleCall]
    /\ runs = 0
    /\ lastResponse = EmptyMap
    /\ chatTasks = EmptyMap

\* the coroutine of the call exists and has not ended
InFlight(c) == c.pc \in {"stream", "tool", "query"}

\* the list objects the calls in flight hold
Held(cs) == {cs[s].obj : s \in {x \in Slots : cs[x].pc \in {"stream", "tool"}}}

\* ids of the tool-call records and of the tool-result records of a history
CallIds(h) ==
    UNION {IF "tool_calls" \in DOMAIN h[n]
           THEN {h[n].tool_calls[j].id : j \in DOMAIN h[n].tool_calls}
           ELSE IF Get(h[n], "type") = "function_call" THEN {h[n].call_id} ELSE {}
           : n \in DOMAIN h}
ResultIds(h) ==
    UNION {IF Get(h[n], "role") = "tool" THEN {h[n].tool_call_id}
           ELSE IF Get(h[n], "type") = "function_call_output" THEN {h[n].call_id} ELSE {}
           : n \in DOMAIN h}

\* A step took the store and the call of slot s to out.store and out.call, with
\* ts the task table.  When the step ended the adapter's loop or the Claude
\* stream ("finished"), or raised into process ("raised", "timeout"), process
\* goes on to its return: lines 571-580 and 651-679.  increment_turns is
\* outside every try: when its _save raises, the exception leaves process
\* ("escaped") and no response is returned.
Settle(s, out, was, ts) ==
    LET c0 == out.call
        c1 == IF c0.pc = "finished"
              THEN [c0 EXCEPT !.cut =
                       [calls |-> CallIds(was) \ CallIds(History(out.store, c0.task)),
                        results |-> ResultIds(was) \ ResultIds(History(out.store, c0.task))]]
              ELSE c0
        returns == c0.entry = "process" /\ c0.pc \in {"finished", "raised", "timeout"}
        resp == IF c0.path = "claude" THEN ClaudeResponse(c1) ELSE OpenAIResponse(c1)
        escapes == returns /\ SaveRaises /\ c0.task \in DOMAIN ts
        \* force_compress: _compress_task_claude, lines 720-729, and
        \* _compress_task_openai, lines 742-751, after their round trip, and
        \* the get_summary that force_compress returns (line 765); "nothing"
        \* is the return of None at lines 757 and 763
        compressed == c0.entry = "compress" /\ c0.pc \in {"finished", "raised", "nothing"}
        saves == compressed /\ c0.pc = "finished" /\ c0.result.text # ""
        ts1 == IF saves THEN save_summary(ts, c0.task, c0.result.text)
               ELSE IF returns THEN increment_turns(ts, c0.task)
               ELSE ts
        fs1 == IF saves THEN save_summary_file(summaryFiles, ts, c0.task, c0.result.text)
               ELSE summaryFiles
        st1 == IF saves /\ c0.path # "claude" THEN clear(out.store, c0.task) ELSE out.store
        c2 == IF escapes THEN [c1 EXCEPT !.pc = "escaped", !.ended = c0.pc, !.error = "OSError"]
              ELSE IF returns
              THEN [c1 EXCEPT !.pc = "returned", !.response = resp, !.ended = c0.pc]
              ELSE IF compressed
              THEN [c1 EXCEPT !.pc = "returned", !.ended = c0.pc,
                              !.response.text = IF c0.pc = "nothing" THEN None
                                                ELSE get_summary(ts1, fs1, c0.task)]
              ELSE IF c0.pc = "finished" THEN [c1 EXCEPT !.pc = "returned"]
              ELSE c1
        \* the bot and the scheduler keep nothing of a call that has ended: the
        \* done callback pops _processing, _execute goes on to the next schedule
        c3 == IF s \in Callers /\ ~InFlight(c2) THEN IdleCall ELSE c2
    IN  /\ calls' = [calls EXCEPT ![s] = c3]
        /\ store' = Collect(st1, Held(calls'))
        /\ summaryFiles' = fs1
        /\ lastResponse' = IF returns /\ resp.text # ""
                           THEN save_last_response(lastResponse, c0.task, resp.text)
                           ELSE lastResponse
        /\ tasks' = ts1
        /\ tasksFile' = IF tasks' = tasks \/ SaveRaises THEN tasksFile ELSE tasks'

NewCall(entry, t, chat, sc, o) ==
    [IdleCall EXCEPT !.pc = "stream", !.entry = entry, !.path = config.path, !.task = t,
                     !.chat = chat, !.obj = o, !.run = runs + 1, !.script = sc,
                     !.before = History(store, t)]

\* a caller calls run(task_id, user_message, system_prompt)
Run(s, t, scripts, most) ==
    /\ ~InFlight(calls[s])
    /\ runs < most
    /\ config.path = "A"
    /\ \E sc \in scripts, m \in Messages, p \in Prompts :
          LET b == RunBegin(store, t, m, p)
          IN  Settle(s, [store |-> b.store,
                         call |-> [NewCall("run", t, None, sc, b.obj)
                                      EXCEPT !.instructions = p]],
                     <<>>, tasks)
    /\ runs' = runs + 1
    /\ UNCHANGED <<nextTaskId, lastOp, stream, schedVars, config, chatTasks>>

\* a caller calls run_codex(task_id, user_message, system_prompt)
RunCodex(s, t, scripts, most) ==
    /\ ~InFlight(calls[s])
    /\ runs < most
    /\ config.path = "B"
    /\ \E sc \in scripts, m \in Messages, p \in Prompts :
          LET b == CodexBegin(store, t, m)
          IN  Settle(s, [store |-> b.store,
                         call |-> [NewCall("run_codex", t, None, sc, b.obj)
                                      EXCEPT !.instructions = p]],
                     <<>>, tasks)
    /\ runs' = runs + 1
    /\ UNCHANGED <<nextTaskId, lastOp, stream, schedVars, config, chatTasks>>

\* process(message, task, chat_id), lines 452-470 and 606-649, up to its first
\* suspension; task 0 is None; ts0 and id0 are the task table and the next task
\* id as the caller left them.  create_task (line 456) is outside every try.
ProcessBegin(s, task, chat, scripts, ts0, id0) ==
    LET creates == task = 0 /\ get_active_task(ts0) = 0
        t == IF task # 0 THEN task
             ELSE IF creates THEN id0 ELSE get_active_task(ts0)
        ts == IF creates THEN create_task(ts0, id0) ELSE ts0
    IN  /\ ~InFlight(calls[s])
        /\ task # 0 => task \in DOMAIN ts0
        /\ creates => id0 <= MaxTasks
        /\ \E sc \in scripts, m \in Messages :
              LET c0 == [NewCall("process", t, chat, sc, 0) EXCEPT !.found = ts[t]]
                  system_prompt == SystemPrompt(ts, summaryFiles, lastResponse, t, chat)
                  c == [c0 EXCEPT !.instructions = system_prompt,
                                  !.resume = IF config.path = "claude" THEN Resume(ts[t])
                                             ELSE None]
                  b == RunBegin(store, t, m, system_prompt)
              IN  Settle(s,
                         IF creates /\ SaveRaises
                         THEN [store |-> store,
                               call |-> [c0 EXCEPT !.pc = "escaped", !.error = "OSError"]]
                         ELSE IF config.path = "A"
                         THEN [store |-> b.store, call |-> [c EXCEPT !.obj = b.obj]]
                         ELSE IF config.path = "B"
                         THEN [store |-> store,
                               call |-> [c EXCEPT !.pc = "raised", !.error = CodexTypeError]]
                         ELSE [store |-> store,
                               call |-> [c EXCEPT !.pc = "query", !.stage = "init"]],
                         <<>>, ts)
        /\ nextTaskId' = IF creates THEN id0 + 1 ELSE id0

\* the console calls process(message, task) with the active task (cli.py, 143-159)
Process(s, scripts, most) ==
    /\ runs < most
    /\ ProcessBegin(s, get_active_task(tasks), None, scripts, tasks, nextTaskId)
    /\ runs' = runs + 1
    /\ UNCHANGED <<lastOp, stream, schedVars, config, chatTasks>>

\* the provider's stream of one round trip ends
RoundTrip(s) ==
    LET c == calls[s]
        n == c.iteration + 1
    IN  /\ c.pc = "stream"
        /\ \E kind \in Kinds :
              LET c1 == [c EXCEPT !.reported = [input |-> @.input + Reported(c.script).input,
                                                output |-> @.output + Reported(c.script).output,
                                                trips |-> @.trips + 1],
                                  !.oneTool = @ /\ kind = "tools" /\ c.script.k = 1,
                                  !.textOnly = @ /\ kind = "text",
                                  !.items = IF c.path = "B"
                                            THEN @ \o StreamResponses(
                                                     EventsOf(c.script, kind, c.run, n)).output_items
                                            ELSE @,
                                  !.malformed = IF c.path = "B"
                                                THEN @ + Malformed(EventsOf(c.script, kind, c.run, n))
                                                ELSE @]
              IN  /\ kind = "tools" => c.iteration < c.script.rounds
                  /\ Settle(s, IF c.path = "A"
                               THEN RunRound(store, c1, ChunksOf(c.script, kind, c.run, n))
                               ELSE CodexRound(store, c1, EventsOf(c.script, kind, c.run, n)),
                            History(store, c.task), tasks)
        /\ UNCHANGED <<nextTaskId, lastOp, stream, schedVars, runs, config, chatTasks>>

\* execute_tool returns, or raises
ToolDone(s) ==
    LET c == calls[s]
        tc == Head(c.pending)
        done == IF c.path = "A" THEN tc.id ELSE tc.call_id
        returned == execute_tool(tc.name, ParseArguments(tc.arguments)).error = None
        c1 == [c EXCEPT !.executed = IF returned THEN @ \cup {done} ELSE @]
    IN  /\ c.pc = "tool"
        /\ Settle(s, IF c.path = "A" THEN RunTool(store, c1) ELSE CodexTool(store, c1),
                  History(store, c.task), tasks)
        /\ UNCHANGED <<nextTaskId, lastOp, stream, schedVars, runs, config, chatTasks>>

\* the request to the provider fails (a non-200 answer, a transport failure):
\* the stream raises; run and run_codex let it through, process catches it
ProviderError(s) ==
    /\ calls[s].pc \in {"stream", "query"}
    /\ Settle(s, [store |-> store,
                  call |-> [calls[s] EXCEPT !.pc = "raised", !.error = "provider"]],
              <<>>, tasks)
    /\ UNCHANGED <<nextTaskId, lastOp, stream, schedVars, runs, config, chatTasks>>

\* _stream_responses, lines 429-438: the endpoint answers the request with a
\* status that is not 200; the body is read and RuntimeError raised before a
\* line of the stream is read
Non200(s) ==
    LET c == calls[s]
    IN  /\ c.pc = "stream"
        /\ c.path = "B"
        /\ \E status \in Statuses, body \in Bodies :
              Settle(s, [store |-> store,
                         call |-> [c EXCEPT !.pc = "raised",
                                            !.error = ResponsesError(status, body),
                                            !.answer = <<[status |-> status, body |-> body]>>]],
                     <<>>, tasks)
        /\ UNCHANGED <<nextTaskId, lastOp, stream, schedVars, runs, config, chatTasks>>

\* TinaAgent.reinit after a switch to the other message-store provider: a
\* new MessageStore over the same directory, so the cache is empty and the
\* files are those the old store wrote
Reinit ==
    /\ \A s \in Slots : ~InFlight(calls[s])
    /\ \E p \in {"A", "B"} \ {config.path} : config' = [config EXCEPT !.path = p]
    /\ store' = [EmptyStore EXCEPT !.disk = store.disk]
    /\ UNCHANGED <<memVars, lastOp, stream, schedVars, calls, runs, lastResponse, chatTasks>>

\* asyncio.timeout(timeout_seconds) of process expires while the call is suspended
Timeout(s) ==
    /\ calls[s].entry = "process"
    /\ InFlight(calls[s])
    /\ Settle(s, [store |-> store, call |-> [calls[s] EXCEPT !.pc = "timeout"]], <<>>, tasks)
    /\ UNCHANGED <<nextTaskId, lastOp, stream, schedVars, runs, config, chatTasks>>

\* a cancellation that first saves the text of the round trip it interrupts
Cancel_savesPartial(s) ==
    /\ InFlight(calls[s])
    /\ Settle(s, [store |-> IF calls[s].pc = "stream"
                            THEN append(store, calls[s].obj, AssistantEntry("hi "))
                            ELSE store,
                  call |-> [calls[s] EXCEPT !.pc = "cancelled"]], <<>>, tasks)
    /\ UNCHANGED <<nextTaskId, lastOp, stream, schedVars, runs, config, chatTasks>>

\* the coroutine is cancelled where it is suspended: CancelledError leaves the
\* call without another statement of it being run
Cancel(s) ==
    /\ InFlight(calls[s])
    /\ Settle(s, [store |-> store, call |-> [calls[s] EXCEPT !.pc = "cancelled"]], <<>>, tasks)
    /\ UNCHANGED <<nextTaskId, lastOp, stream, schedVars, runs, config, chatTasks>>

(***************************************************************************)
(* The Claude path of process: the messages of query(prompt, options), in  *)
(* the order the runtime sends them: init, assistant messages, result      *)
(***************************************************************************)
\* most assistant messages of one query
MaxBlocks == 2

\* SystemMessage init (lines 499-510)
QueryInit(s) ==
    LET c == calls[s]
    IN  /\ c.pc = "query" /\ c.stage = "init"
        /\ \E sid \in SessionIds :
              LET c1 == [c EXCEPT !.response.session_id = sid]
              IN  IF SaveRaises /\ c.task \in DOMAIN tasks
                  THEN \* _save raises inside the try: except Exception takes it
                       Settle(s, [store |-> store,
                                  call |-> [c1 EXCEPT !.pc = "raised", !.error = "OSError"]],
                              <<>>, update_session_id(tasks, c.task, sid))
                  ELSE /\ calls' = [calls EXCEPT ![s] = [c1 EXCEPT !.stage = "assistant"]]
                       /\ tasks' = update_session_id(tasks, c.task, sid)
                       /\ tasksFile' = IF tasks' = tasks THEN tasksFile ELSE tasks'
                       /\ UNCHANGED <<summaryFiles, store, lastResponse>>
        /\ UNCHANGED <<nextTaskId, lastOp, stream, schedVars, runs, config, chatTasks>>

\* AssistantMessage with one TextBlock or one ToolUseBlock (lines 512-533)
QueryAssistant(s) ==
    LET c == calls[s]
    IN  /\ c.pc = "query" /\ c.stage = "assistant"
        /\ Len(c.parts) + Len(c.response.tool_uses) < MaxBlocks
        /\ \E block \in {"text", "tool_use"} :
              calls' = [calls EXCEPT ![s] =
                           IF block = "text" THEN [c EXCEPT !.parts = Append(@, "hi there")]
                           ELSE [c EXCEPT !.response.tool_uses = Append(@, "Read")]]
        /\ UNCHANGED <<memVars, lastOp, stream, schedVars, store, runs, config, lastResponse,
                       chatTasks>>

\* ResultMessage, for the session the init message named (lines 535-559)
QueryResult(s) ==
    LET c == calls[s]
        usage == Reported(c.script)
        r == [c.response EXCEPT !.num_turns = 1,
                                !.input_tokens = IF c.script.frames # <<>> THEN usage.input ELSE @,
                                !.output_tokens = IF c.script.frames # <<>> THEN usage.output ELSE @]
    IN  /\ c.pc = "query" /\ c.stage = "assistant"
        /\ IF SaveRaises /\ c.task \in DOMAIN tasks
           THEN Settle(s, [store |-> store,
                           call |-> [c EXCEPT !.response = r, !.pc = "raised",
                                              !.error = "OSError"]],
                       <<>>, update_session_id(tasks, c.task, r.session_id))
           ELSE /\ calls' = [calls EXCEPT ![s] = [c EXCEPT !.stage = "end", !.response = r]]
                /\ tasks' = update_session_id(tasks, c.task, r.session_id)
                /\ tasksFile' = IF tasks' = tasks THEN tasksFile ELSE tasks'
                /\ UNCHANGED <<summaryFiles, store, lastResponse>>
        /\ UNCHANGED <<nextTaskId, lastOp, stream, schedVars, runs, config, chatTasks>>

\* the stream of messages ends
QueryEnd(s) ==
    /\ calls[s].pc = "query" /\ calls[s].stage = "end"
    /\ Settle(s, [store |-> store, call |-> [calls[s] EXCEPT !.pc = "finished"]], <<>>, tasks)
    /\ UNCHANGED <<nextTaskId, lastOp, stream, schedVars, runs, config, chatTasks>>

(***************************************************************************)
(* run and run_codex called directly, call after call, on one task id; the *)
(* provider may ask for tools in every round trip                          *)
(***************************************************************************)
\* calls started in one behaviour
MaxLoopRuns == 2

InitLoop ==
    /\ MemoryEmpty
    /\ stream = NoStream
    /\ SchedulerIdle
    /\ LoopIdle
    /\ config \in {[DefaultConfig EXCEPT !.path = p] : p \in {"A", "B"}}

NextLoop ==
    \/ Run("direct", 1, ScriptsOf(MAX_TOOL_ITERATIONS), MaxLoopRuns)
    \/ RunCodex("direct", 1, ScriptsOf(MAX_TOOL_ITERATIONS), MaxLoopRuns)
    \/ RoundTrip("direct")
    \/ ToolDone("direct")
    \/ ProviderError("direct")
    \/ Cancel("direct")

SpecLoop == InitLoop /\ [][NextLoop]_vars

(***************************************************************************)
(* process called from the console, call after call, on the active task    *)
(***************************************************************************)
\* process calls started in one behaviour
MaxProcessRuns == 3
\* round trips of one call in which the provider asks for tools
MaxToolRounds == 1
\* largest compress_after_turns configured
MaxThreshold == 2

InitProcess ==
    /\ MemoryEmpty
    /\ stream = NoStream
    /\ SchedulerIdle
    /\ LoopIdle
    /\ config \in [path : Paths, compress_after_turns : 1..MaxThreshold,
                    tasks_file : {"writable"}, allowed_users : {Users}, skills_section : {""},
                    allowed_tools : {DefaultTools}]

NextProcess ==
    \/ Process("direct", ScriptsOf(MaxToolRounds), MaxProcessRuns)
    \/ MemCreateTask
    \/ RoundTrip("direct")
    \/ ToolDone("direct")
    \/ ProviderError("direct")
    \/ Timeout("direct")
    \/ Cancel("direct")
    \/ QueryInit("direct")
    \/ QueryAssistant("direct")
    \/ QueryResult("direct")
    \/ QueryEnd("direct")

SpecProcess == InitProcess /\ [][NextProcess]_vars

(***************************************************************************)
(* run and run_codex called directly while the provider sends arguments    *)
(* payloads of every kind, the adapter-B endpoint may refuse a request,    *)
(* and the provider may be switched between calls                          *)
(***************************************************************************)
\* calls started in one behaviour
MaxToolRuns == 2

InitTools == InitLoop

NextTools ==
    \/ Run("direct", 1, ToolScripts(MaxToolRounds), MaxToolRuns)
    \/ RunCodex("direct", 1, ToolScripts(MaxToolRounds), MaxToolRuns)
    \/ RoundTrip("direct")
    \/ ToolDone("direct")
    \/ Non200("direct")
    \/ Reinit

SpecTools == InitTools /\ [][NextTools]_vars

(***************************************************************************)
(* run and run_codex under a tool allowlist, while the provider asks for a *)
(* tool that is offered to it, for one that is not, and for one that does  *)
(* not exist                                                               *)
(***************************************************************************)
\* calls started in one behaviour
MaxAllowRuns == 2

\* the tool names the provider asks for
AskedTools == {"Read", "Bash", "Browse"}

AllowScripts == {[sc EXCEPT !.tool = name] : sc \in ScriptsOf(1), name \in AskedTools}

InitAllow ==
    /\ MemoryEmpty
    /\ stream = NoStream
    /\ SchedulerIdle
    /\ LoopIdle
    /\ config \in [path : {"A", "B"}, compress_after_turns : {1}, tasks_file : {"writable"},
                    allowed_users : {Users}, skills_section : {""},
                    allowed_tools : {{"Read"}, DefaultTools}]

NextAllow ==
    \/ Run("direct", 1, AllowScripts, MaxAllowRuns)
    \/ RunCodex("direct", 1, AllowScripts, MaxAllowRuns)
    \/ RoundTrip("direct")
    \/ ToolDone("direct")

SpecAllow == InitAllow /\ [][NextAllow]_vars

(***************************************************************************)
(* process called from the console while tasks.json may become unwritable  *)
(***************************************************************************)
\* process calls started in one behaviour
MaxFaultRuns == 2

\* tasks.json can no longer be written (read-only file, full disk)
TasksFileFails ==
    /\ config.tasks_file = "writable"
    /\ config' = [config EXCEPT !.tasks_file = "unwritable"]
    /\ UNCHANGED <<memVars, lastOp, stream, schedVars, store, calls, runs, lastResponse, chatTasks>>

InitFaults ==
    /\ MemoryEmpty
    /\ stream = NoStream
    /\ SchedulerIdle
    /\ LoopIdle
    /\ config \in [path : Paths, compress_after_turns : {1}, tasks_file : {"writable"},
                    allowed_users : {Users}, skills_section : {""},
                    allowed_tools : {DefaultTools}]

NextFaults ==
    \/ Process("direct", ScriptsOf(MaxToolRounds), MaxFaultRuns)
    \/ TasksFileFails
    \/ RoundTrip("direct")
    \/ ToolDone("direct")
    \/ ProviderError("direct")
    \/ Timeout("direct")
    \/ QueryInit("direct")
    \/ QueryAssistant("direct")
    \/ QueryResult("direct")
    \/ QueryEnd("direct")

SpecFaults == InitFaults /\ [][NextFaults]_vars

(***************************************************************************)
(* The console: process, /compress (force_compress) and /delete on the     *)
(* active task, one command after the other                                *)
(***************************************************************************)
\* commands that start a call in one behaviour
MaxAgentRuns == 3

COMPRESSION_PROMPT == "Summarize our conversation so far"
SummarizePrompt == "You are a helpful assistant. Summarize the conversation."

\* a variant that also asks for the turn count to have reached the threshold
NothingToCompress_belowThreshold(task, msgs) ==
    \/ task.turn_count < config.compress_after_turns
    \/ IF config.path = "claude" THEN task.session_id \in {None, ""} ELSE Len(msgs) <= 1

\* force_compress, lines 755-763: the cases in which it returns None at once
NothingToCompress(task, msgs) ==
    IF config.path = "claude" THEN task.session_id \in {None, ""} ELSE Len(msgs) <= 1

\* force_compress(task), up to its first suspension: the query of
\* _compress_task_claude, or the first round trip of the run that
\* _compress_task_openai calls
ForceCompressTask(s, t, scripts) ==
    LET g == get_messages(store, t)
        b == RunBegin(g.store, t, COMPRESSION_PROMPT, SummarizePrompt)
    IN  \E sc \in scripts :
            LET c == [NewCall("compress", t, None, sc, 0) EXCEPT !.found = tasks[t]]
            IN  Settle(s,
                       IF config.path = "claude"
                       THEN [store |-> store,
                             call |-> IF NothingToCompress(tasks[t], <<>>)
                                      THEN [c EXCEPT !.pc = "nothing"]
                                      ELSE [c EXCEPT !.pc = "query", !.stage = "summary"]]
                       ELSE IF NothingToCompress(tasks[t], g.store.lists[g.obj])
                       THEN [store |-> g.store, call |-> [c EXCEPT !.pc = "nothing"]]
                       ELSE [store |-> b.store,
                             call |-> [c EXCEPT !.path = "A", !.obj = b.obj]],
                       <<>>, tasks)

\* /compress of the console (cli.py, 197-210): force_compress for the active task
ForceCompress(s, scripts, most) ==
    LET t == get_active_task(tasks)
    IN  /\ ~InFlight(calls[s])
        /\ runs < most
        /\ t # 0
        /\ ForceCompressTask(s, t, scripts)
        /\ runs' = runs + 1
        /\ UNCHANGED <<nextTaskId, lastOp, stream, schedVars, config, chatTasks>>

\* _compress_task_claude, lines 714-719: the query (max_turns = 1) has sent
\* its messages; summary_parts are the TextBlocks of its AssistantMessages
CompressQuery(s) ==
    LET c == calls[s]
    IN  /\ c.pc = "query" /\ c.stage = "summary"
        /\ \E parts \in {<<>>} \cup {<<x>> : x \in Summaries} :
              Settle(s, [store |-> store,
                         call |-> [c EXCEPT !.pc = "finished", !.parts = parts,
                                            !.result.text = Join(parts),
                                            !.reported.trips = 1]],
                     <<>>, tasks)
        /\ UNCHANGED <<nextTaskId, lastOp, stream, schedVars, runs, config, chatTasks>>

\* /delete <task_id> and "task del" (cli.py, 212-221 and 425-436)
CliDelete(s) ==
    /\ ~InFlight(calls[s])
    /\ \E id \in DOMAIN tasks :
          /\ tasks' = delete_task(tasks, id)
          /\ summaryFiles' = delete_summary_file(summaryFiles, tasks, id)
          /\ tasksFile' = tasks'
          /\ lastOp' = Op("delete_task", id, None)
    /\ UNCHANGED <<nextTaskId, notMem>>

InitAgent ==
    /\ MemoryEmpty
    /\ stream = NoStream
    /\ SchedulerIdle
    /\ LoopIdle
    /\ config \in [path : Paths, compress_after_turns : {MaxThreshold},
                    tasks_file : {"writable"}, allowed_users : {Users}, skills_section : {""},
                    allowed_tools : {DefaultTools}]

NextAgent ==
    \/ Process("direct", ScriptsOf(MaxToolRounds), MaxAgentRuns)
    \/ ForceCompress("direct", ScriptsOf(MaxToolRounds), MaxAgentRuns)
    \/ CliDelete("direct")
    \/ RoundTrip("direct")
    \/ ToolDone("direct")
    \/ ProviderError("direct")
    \/ QueryInit("direct")
    \/ QueryAssistant("direct")
    \/ QueryResult("direct")
    \/ QueryEnd("direct")
    \/ CompressQuery("direct")

SpecAgent == InitAgent /\ [][NextAgent]_vars

(***************************************************************************)
(* The console with a time limit on process: process, /compress and        *)
(* /delete on the active task, where a call may also time out              *)
(***************************************************************************)
InitTurns == InitAgent

NextTurns ==
    \/ Process("direct", ScriptsOf(MaxToolRounds), MaxAgentRuns)
    \/ ForceCompress("direct", ScriptsOf(MaxToolRounds), MaxAgentRuns)
    \/ CliDelete("direct")
    \/ RoundTrip("direct")
    \/ ToolDone("direct")
    \/ ProviderError("direct")
    \/ Timeout("direct")
    \/ QueryInit("direct")
    \/ QueryAssistant("direct")
    \/ QueryResult("direct")
    \/ QueryEnd("direct")
    \/ CompressQuery("direct")

SpecTurns == InitTurns /\ [][NextTurns]_vars

(***************************************************************************)
(* The console on the Claude path: process and /compress on the active     *)
(* task, often enough for a compressed task to be given a session again    *)
(***************************************************************************)
\* commands that start a call in one behaviour
MaxSessionRuns == 4

InitSession ==
    /\ MemoryEmpty
    /\ stream = NoStream
    /\ SchedulerIdle
    /\ LoopIdle
    /\ config = [DefaultConfig EXCEPT !.path = "claude"]

NextSession ==
    \/ Process("direct", ScriptsOf(MaxToolRounds), MaxSessionRuns)
    \/ ForceCompress("direct", ScriptsOf(MaxToolRounds), MaxSessionRuns)
    \/ ProviderError("direct")
    \/ QueryInit("direct")
    \/ QueryAssistant("direct")
    \/ QueryResult("direct")
    \/ QueryEnd("direct")
    \/ CompressQuery("direct")

SpecSession == InitSession /\ [][NextSession]_vars

(***************************************************************************)
(* The console on the OpenAI provider: process and /compress, while the    *)
(* agent is reinitialised between API-key mode (adapter A) and OAuth mode  *)
(* (adapter B) over the same message files                                 *)
(***************************************************************************)
\* commands in one behaviour
MaxSwitchRuns == 3

InitSwitch ==
    /\ MemoryEmpty
    /\ stream = NoStream
    /\ SchedulerIdle
    /\ LoopIdle
    /\ config \in [path : {"A", "B"}, compress_after_turns : {1}, tasks_file : {"writable"},
                    allowed_users : {Users}, skills_section : {""},
                    allowed_tools : {DefaultTools}]

NextSwitch ==
    \/ Process("direct", ScriptsOf(1), MaxSwitchRuns)
    \/ ForceCompress("direct", ScriptsOf(1), MaxSwitchRuns)
    \/ RoundTrip("direct")
    \/ ToolDone("direct")
    \/ ProviderError("direct")
    \/ Reinit

SpecSwitch == InitSwitch /\ [][NextSwitch]_vars

(***************************************************************************)
(* TelegramBot and Scheduler: the chats' handlers, the processing task of  *)
(* each chat, and the scheduler's executions, all on one event loop        *)
(***************************************************************************)
\* messages handled and schedules executed in one behaviour
MaxRuns == 2

\* what the provider does in the calls the bot and the scheduler start
BotScripts == {Script(1, "wip", <<<<5, 2>>>>, MaxToolRounds)}

\* The handlers below are what a handler does once _check_allowed has
\* let the update through; what they record of the update (lastOp) is left to
\* the specification that dispatches them.

\* /new (telegram.py, 314-322)
OnNew(chat) ==
    /\ nextTaskId <= MaxTasks
    /\ tasks' = create_task(tasks, nextTaskId)
    /\ tasksFile' = tasks'
    /\ nextTaskId' = nextTaskId + 1
    /\ chatTasks' = Put(chatTasks, chat, nextTaskId)
    /\ UNCHANGED <<summaryFiles, stream, schedVars, store, calls, runs, config, lastResponse>>

\* /resume <task_id> (telegram.py, 344-360)
OnResume(chat, id) ==
    /\ id \in DOMAIN tasks
    /\ chatTasks' = Put(chatTasks, chat, id)
    /\ UNCHANGED <<memVars, stream, schedVars, store, calls, runs, config, lastResponse>>

\* _on_message (435-453) with _cancel_processing (485-494): the chat's
\* processing task, if it has one that is not done, is cancelled and waited for,
\* and a new processing task is created for the message
OnMessage(chat) ==
    /\ runs < MaxRuns
    /\ calls[chat].pc # "queued"
    /\ calls' = [calls EXCEPT ![chat] = [IdleCall EXCEPT !.pc = "queued"]]
    /\ store' = Collect(store, Held(calls'))
    /\ runs' = runs + 1
    /\ UNCHANGED <<memVars, stream, schedVars, config, lastResponse, chatTasks>>

\* _process_message (496-546) starts: _get_or_create_task (170-182), get_task,
\* and the call of process up to its first suspension
ProcessMessage(chat) ==
    LET has == chat \in DOMAIN chatTasks /\ chatTasks[chat] \in DOMAIN tasks
        task_id == IF has THEN chatTasks[chat] ELSE nextTaskId
        ts == IF has THEN tasks ELSE create_task(tasks, nextTaskId)
        id == IF has THEN nextTaskId ELSE nextTaskId + 1
    IN  /\ calls[chat].pc = "queued"
        /\ ~has => nextTaskId <= MaxTasks
        /\ chatTasks' = Put(chatTasks, chat, task_id)
        /\ ProcessBegin(chat, task_id, chat, BotScripts, ts, id)
        /\ UNCHANGED <<lastOp, stream, schedVars, runs, config>>

\* Scheduler._execute (174-194) for a due schedule: process(message=prompt)
Execute ==
    /\ runs < MaxRuns
    /\ ProcessBegin("scheduler", 0, None, BotScripts, tasks, nextTaskId)
    /\ runs' = runs + 1
    /\ UNCHANGED <<lastOp, stream, schedVars, config, chatTasks>>

Init ==
    /\ MemoryEmpty
    /\ stream = NoStream
    /\ SchedulerIdle
    /\ LoopIdle
    /\ config \in [path : Paths, compress_after_turns : {1}, tasks_file : {"writable"},
                    allowed_users : {Users}, skills_section : {""},
                    allowed_tools : {DefaultTools}]

Next ==
    \/ \E chat \in Chats : OnNew(chat) /\ UNCHANGED lastOp
    \/ \E chat \in Chats, id \in TaskIds : OnResume(chat, id) /\ UNCHANGED lastOp
    \/ \E chat \in Chats : OnMessage(chat) /\ UNCHANGED lastOp
    \/ \E chat \in Chats : ProcessMessage(chat)
    \/ Execute
    \/ \E s \in Callers : RoundTrip(s)
    \/ \E s \in Callers : ToolDone(s)
    \/ \E s \in Callers : ProviderError(s)
    \/ \E s \in Callers : Timeout(s)
    \/ \E s \in Callers : QueryInit(s)
    \/ \E s \in Callers : QueryAssistant(s)
    \/ \E s \in Callers : QueryResult(s)
    \/ \E s \in Callers : QueryEnd(s)

Spec == Init /\ [][Next]_vars

(***************************************************************************)
(* The Telegram bot and its allowlist: updates of every sender, allowed or *)
(* not, handled one after the other, and the process calls they start      *)
(***************************************************************************)
\* updates handled in one behaviour
MaxUpdates == 3

UpdateKinds == {"new", "resume", "compress", "message"}

\* an allowlist in which an empty list lets every user in
is_allowed_emptyAllowsAll(user_id) ==
    config.allowed_users = {} \/ user_id \in config.allowed_users

\* _is_allowed
is_allowed(user_id) == user_id \in config.allowed_users

\* _check_allowed: an update without effective_user is refused
check_allowed(user) == user # None /\ is_allowed(user)

\* /compress (telegram.py, 362-382): force_compress for the chat's task when
\* it has a session pointer, awaited by the handler
OnCompress(chat) ==
    /\ chat \in DOMAIN chatTasks
    /\ chatTasks[chat] \in DOMAIN tasks
    /\ tasks[chatTasks[chat]].session_id \notin {None, ""}
    /\ ForceCompressTask("direct", chatTasks[chat], BotScripts)
    /\ UNCHANGED <<nextTaskId, stream, schedVars, runs, config, chatTasks>>

\* One update is dispatched to its handler.  Every handler begins with
\* "if not update.message or not await self._check_allowed(update): return";
\* lastOp records the update handled last.  The handler of a photo (455-483)
\* has the same first statement and starts the same processing task.
TelegramUpdate(user, chat) ==
    /\ lastOp.seq < MaxUpdates
    /\ ~InFlight(calls["direct"])
    /\ \E kind \in UpdateKinds :
          /\ lastOp' = [op |-> "update", kind |-> kind, user |-> user, chat |-> chat,
                        seq |-> lastOp.seq + 1]
          /\ IF ~check_allowed(user)
             THEN UNCHANGED <<memVars, stream, schedVars, store, calls, runs, config, lastResponse,
                              chatTasks>>
             ELSE IF kind = "new" THEN OnNew(chat)
             ELSE IF kind = "resume" THEN \E id \in TaskIds : OnResume(chat, id)
             ELSE IF kind = "compress" THEN OnCompress(chat)
             ELSE OnMessage(chat)

InitAccess ==
    /\ tasks = EmptyMap
    /\ tasksFile = EmptyMap
    /\ summaryFiles = EmptyMap
    /\ nextTaskId = 1
    /\ lastOp = [op |-> "none", kind |-> None, user |-> None, chat |-> None, seq |-> 0]
    /\ stream = NoStream
    /\ SchedulerIdle
    /\ LoopIdle
    /\ config \in [path : {"claude", "A"}, compress_after_turns : {1},
                    tasks_file : {"writable"}, allowed_users : SUBSET Users, skills_section : {""},
                    allowed_tools : {DefaultTools}]

NextAccess ==
    \/ \E user \in Senders, chat \in Chats : TelegramUpdate(user, chat)
    \/ \E chat \in Chats : ProcessMessage(chat)
    \/ \E s \in Chats : RoundTrip(s)
    \/ \E s \in Chats : ToolDone(s)
    \/ \E s \in Chats : QueryInit(s)
    \/ \E s \in Chats : QueryResult(s)
    \/ \E s \in Chats : QueryEnd(s)
    \/ CompressQuery("direct")

SpecAccess == InitAccess /\ [][NextAccess]_vars

(***************************************************************************)
(* One adapter-A stream consumed chunk by chunk                            *)
(***************************************************************************)
ReadOpen == Fragment(0, "call_1", "Read", "{\"file_")
ReadRest == Fragment(0, "", "", "path\":\"a.txt\"}")
BashOpen == Fragment(1, "call_2", "Bash", "{}")
\* a later delta that supplies id and name again, and no arguments
Rename == Fragment(0, "call_9", "Grep", "")

Fragments == {ReadOpen, ReadRest, BashOpen, Rename}

SeqsUpTo(S, n) == UNION {[1..m -> S] : m \in 0..n}

StreamChunks ==
    {TextChunk("hi")}
    \cup {ToolChunk(fs) : fs \in SeqsUpTo(Fragments, MaxFragments) \ {<<>>}}
    \cup {UsageChunk(5, 2)}

InitStream ==
    /\ MemoryEmpty
    /\ LoopIdle
    /\ config = DefaultConfig
    /\ \E cs \in SeqsUpTo(StreamChunks, MaxChunks) :
          stream = [NoStream EXCEPT !.chunks = cs, !.pc = "open"]
    /\ SchedulerIdle

\* one iteration of "async for chunk in stream"
StreamChunk ==
    /\ stream.pc = "open"
    /\ stream.chunks # <<>>
    /\ stream' = [stream EXCEPT !.chunks = Tail(@),
                                !.consumed = Append(@, Head(stream.chunks)),
                                !.acc = ConsumeChunk(@, Head(stream.chunks))]
    /\ UNCHANGED <<memVars, lastOp, schedVars, loopVars>>

\* the stream ends: the tool calls are resolved
StreamEnd ==
    /\ stream.pc = "open"
    /\ stream.chunks = <<>>
    /\ stream' = [stream EXCEPT !.pc = "end",
                                !.tool_calls = ResolveToolCalls(stream.acc.byIndex)]
    /\ UNCHANGED <<memVars, lastOp, schedVars, loopVars>>

NextStream == StreamChunk \/ StreamEnd

SpecStream == InitStream /\ [][NextStream]_vars

(***************************************************************************)
(* TaskMemory's operations called directly, in any order                   *)
(***************************************************************************)
InitMemory ==
    /\ MemoryEmpty
    /\ stream = NoStream
    /\ SchedulerIdle
    /\ LoopIdle
    /\ config = DefaultConfig

NextMemory ==
    \/ MemCreateTask
    \/ MemSetActive
    \/ MemUpdateSessionId
    \/ MemIncrementTurns
    \/ MemSaveSummary
    \/ MemDeleteTask

SpecMemory == InitMemory /\ [][NextMemory]_vars

(***************************************************************************)
(* _build_system_prompt called for the tasks of a TaskMemory on which      *)
(* sessions, summaries and last responses are saved in any order           *)
(***************************************************************************)
LastResponses == {"hi there"}

SaveLastResponse ==
    \E id \in DOMAIN tasks, text \in LastResponses :
        /\ lastResponse' = save_last_response(lastResponse, id, text)
        /\ lastOp' = Op("save_last_response", id, text)
        /\ UNCHANGED <<memVars, stream, schedVars, store, calls, runs, config, chatTasks>>

\* _build_system_prompt(task, chat_id) for a task of the table; the Task it
\* was given and the text it returned are kept in lastOp
BuildSystemPrompt ==
    \E id \in DOMAIN tasks, chat_id \in Chats \cup {None} :
        /\ lastOp' = [op |-> "build_system_prompt", id |-> id, chat_id |-> chat_id,
                      task |-> tasks[id],
                      result |-> SystemPrompt(tasks, summaryFiles, lastResponse, id, chat_id)]
        /\ UNCHANGED <<memVars, notMem>>

InitPrompt ==
    /\ MemoryEmpty
    /\ stream = NoStream
    /\ SchedulerIdle
    /\ LoopIdle
    /\ config \in [path : Paths, compress_after_turns : {1}, tasks_file : {"writable"},
                    allowed_users : {Users}, skills_section : {"", SkillsSection}]

NextPrompt ==
    \/ MemCreateTask
    \/ MemUpdateSessionId
    \/ MemSaveSummary
    \/ MemDeleteTask
    \/ SaveLastResponse
    \/ BuildSystemPrompt

SpecPrompt == InitPrompt /\ [][NextPrompt]_vars

(***************************************************************************)
(* MessageStore called directly: append_message and trim_to_budget on the  *)
(* history of one task, with budgets from 0                                *)
(***************************************************************************)
\* longest history, and largest max_messages
MaxHistory == 4
MaxBudget == 2

TrimEntries == {SystemEntry("P1"), UserEntry("hello"), AssistantEntry("hi there")}

AppendMessage ==
    /\ Len(History(store, 1)) < MaxHistory
    /\ \E e \in TrimEntries : store' = append_message(store, 1, e)
    /\ lastOp' = Op("append_message", 1, None)
    /\ UNCHANGED <<memVars, stream, schedVars, calls, runs, config, lastResponse, chatTasks>>

\* trim_to_budget(task_id, max_messages); the history it found is kept in lastOp
TrimToBudget ==
    /\ \E n \in 0..MaxBudget :
          /\ store' = Collect(trim_to_budget(store, 1, n), {})
          /\ lastOp' = [op |-> "trim_to_budget", max_messages |-> n,
                        before |-> History(store, 1)]
    /\ UNCHANGED <<memVars, stream, schedVars, calls, runs, config, lastResponse, chatTasks>>

InitTrim == InitMemory

NextTrim == AppendMessage \/ TrimToBudget

SpecTrim == InitTrim /\ [][NextTrim]_vars

(***************************************************************************)
(* The scheduler's loop over the schedule files, which the model writes as *)
(* the scheduling prompt documents and the console adds with store.add     *)
(***************************************************************************)
\* the model writes schedules/<id>.json in the documented format
WriteScheduleFile(id) ==
    /\ id \notin DOMAIN schedules
    /\ \E cron \in Crons, once \in BOOLEAN :
          schedules' = Put(schedules, id, DocumentedFile(cron, "chat1", once, now))
    /\ UNCHANGED <<memVars, lastOp, stream, loopVars, now, lastTick, sent, taskVars>>

\* "tina schedule add" (cli.py, 380-388): ScheduleStore.add
AddSchedule(id) ==
    /\ id \notin DOMAIN schedules
    /\ \E cron \in Crons :
          schedules' = Put(schedules, id, to_dict(NewSchedule(id, cron, "chat1", now)))
    /\ UNCHANGED <<memVars, lastOp, stream, loopVars, now, lastTick, sent, taskVars>>

\* a minute passes
ClockTick ==
    /\ now < MaxNow
    /\ now' = now + 1
    /\ UNCHANGED <<memVars, lastOp, stream, loopVars, schedules, lastTick, sent, taskVars>>

\* Scheduler.run: one _tick
Tick ==
    LET r == Sweep(list(schedules), schedules, sent, now)
    IN  /\ lastTick # now
        /\ schedules' = r.files
        /\ sent' = r.sent
        /\ lastTick' = now
        /\ UNCHANGED <<memVars, lastOp, stream, loopVars, now, taskVars>>

InitScheduler == InitMemory

NextScheduler ==
    \/ \E id \in ScheduleIds : WriteScheduleFile(id)
    \/ \E id \in ScheduleIds : AddSchedule(id)
    \/ ClockTick
    \/ Tick

SpecScheduler == InitScheduler /\ [][NextScheduler]_vars

(***************************************************************************)
(* Scheduler.run from await to await: _tick reads the schedule files once, *)
(* then goes down the list and awaits _execute for each schedule that is   *)
(* due, while files are added and edited and the clock goes on             *)
(***************************************************************************)
\* executions of schedules in one behaviour
MaxExecutions == 3

\* how the try block of _execute ends: process and send_fn returned; process
\* raised; send_fn raised; and whether the failure notice then got through
Outcomes == {"delivered", "process raised", "send raised"}

\* a variant that leaves last_run alone after a failed execution
update_last_run_onSuccess(fs, id, timestamp, ok) ==
    IF ok THEN update_last_run(fs, id, timestamp) ELSE fs

\* _execute, line 194: update_last_run whatever the try block did
update_last_run_regardless(fs, id, timestamp, ok) == update_last_run(fs, id, timestamp)

\* the "enabled" key of schedules/<id>.json is rewritten (the scheduling
\* prompt documents the key; the files are edited with the Write tool)
SetEnabled(id) ==
    /\ id \in DOMAIN schedules
    /\ "enabled" \in DOMAIN schedules[id]
    /\ schedules' = [schedules EXCEPT ![id].enabled = ~@]
    /\ UNCHANGED <<memVars, lastOp, stream, loopVars, now, lastTick, sent, taskVars>>

\* _tick, lines 146-150, down the list to the next schedule that is enabled
\* and due at t: the schedules before it are skipped
RECURSIVE Skip(_, _)
Skip(todo, t) ==
    IF todo = <<>> \/ (Head(todo).enabled /\ is_due(Head(todo), t)) THEN todo
    ELSE Skip(Tail(todo), t)

\* where run is with the list todo left: awaiting _execute for its head,
\* which keeps the time it began at, or asleep when nothing is left
Await(todo, t) ==
    IF todo = <<>> THEN Asleep ELSE [pc |-> "execute", todo |-> todo, started |-> t]

\* _tick from store.list() to its first await
TickBegin ==
    LET todo == Skip(list(schedules), now)
    IN  /\ sweep.pc = "sleep"
        /\ todo # <<>> => Len(sent) < MaxExecutions
        /\ sweep' = Await(todo, now)
        /\ lastTick' = IF todo = <<>> THEN now ELSE lastTick
        /\ UNCHANGED <<memVars, lastOp, stream, loopVars, schedules, now, sent, processing>>

\* _execute, lines 179-194, from the return of its awaits: the execution is
\* noted with what send_fn delivered (the response, the failure notice, or
\* nothing when the notice raised too), then update_last_run with the time
\* kept; _tick goes on to its next await
ExecuteEnd ==
    LET s == Head(sweep.todo)
        todo == Skip(Tail(sweep.todo), now)
    IN  /\ sweep.pc = "execute"
        /\ todo # <<>> => Len(sent) + 1 < MaxExecutions
        /\ \E outcome \in Outcomes, notice \in BOOLEAN :
              /\ sent' = Append(sent, [id |-> s.id, chat_id |-> s.chat_id,
                                       prompt |-> s.prompt, at |-> sweep.started,
                                       outcome |-> outcome,
                                       delivered |-> IF outcome = "delivered" THEN "response"
                                                     ELSE IF notice THEN "notice"
                                                     ELSE "nothing"])
              /\ schedules' = update_last_run_regardless(schedules, s.id, sweep.started,
                                                         outcome = "delivered")
        /\ sweep' = Await(todo, now)
        /\ lastTick' = IF todo = <<>> THEN now ELSE lastTick
        /\ UNCHANGED <<memVars, lastOp, stream, loopVars, now, processing>>

InitExecute == InitMemory

NextExecute ==
    \/ \E id \in ScheduleIds : AddSchedule(id)
    \/ \E id \in ScheduleIds : SetEnabled(id)
    \/ ClockTick
    \/ TickBegin
    \/ ExecuteEnd

SpecExecute == InitExecute /\ [][NextExecute]_vars

(***************************************************************************)
(* TelegramBot._processing: the handlers of messages, handled one after    *)
(* the other, and the processing tasks they create and cancel.  A task is  *)
(* "running" in _process_message's try block, "interrupted" in its         *)
(* CancelledError branch, which awaits three calls of the Bot API before   *)
(* it re-raises, and "done" after that.                                    *)
(***************************************************************************)
\* processing tasks created in one behaviour
MaxProcs == 3

\* a done callback that removes the entry only when it is its own task's
done_callback_ownEntry(entry, chat, proc) ==
    IF entry[chat] = proc THEN [entry EXCEPT ![chat] = 0] ELSE entry

\* lambda _: self._processing.pop(chat_id, None)
done_callback(entry, chat, proc) == [entry EXCEPT ![chat] = 0]

\* asyncio.create_task(self._process_message(...)); self._processing[chat_id]
\* = proc_task; add_done_callback: p with the new task registered for chat
Register(p, chat) ==
    [p EXCEPT !.procs = Append(@, [chat |-> chat, state |-> "running"]),
              !.entry[chat] = Len(p.procs) + 1,
              !.handler = NoProcessing.handler]

\* _on_message and _on_photo to their first suspension: _cancel_processing
\* pops the chat's entry; a task that is not done is cancelled and awaited
\* for up to 2 s, else the new task is created and registered at once
MessageBegin(chat) ==
    LET proc == processing.entry[chat]
        popped == [processing EXCEPT !.entry[chat] = 0]
    IN  /\ processing.handler.pc = "idle"
        /\ Len(processing.procs) < MaxProcs
        /\ processing' =
              IF proc # 0 /\ processing.procs[proc].state # "done"
              THEN [popped EXCEPT !.procs[proc].state = "interrupted",
                                  !.handler = [pc |-> "waiting", chat |-> chat, proc |-> proc]]
              ELSE Register(popped, chat)
        /\ UNCHANGED <<memVars, lastOp, stream, loopVars, schedules, now, lastTick, sent, sweep>>

\* the wait of _cancel_processing ends, with the cancelled task done or with
\* the 2 s over, and the handler creates and registers the new task
MessageEnd ==
    /\ processing.handler.pc = "waiting"
    /\ processing' = Register(processing, processing.handler.chat)
    /\ UNCHANGED <<memVars, lastOp, stream, loopVars, schedules, now, lastTick, sent, sweep>>

\* a processing task ends, by the return of _process_message or by the
\* CancelledError it re-raises, and its done callback runs
ProcDone(proc) ==
    /\ proc \in DOMAIN processing.procs
    /\ processing.procs[proc].state # "done"
    /\ processing' = [processing EXCEPT
                         !.procs[proc].state = "done",
                         !.entry = done_callback(@, processing.procs[proc].chat, proc)]
    /\ UNCHANGED <<memVars, lastOp, stream, loopVars, schedules, now, lastTick, sent, sweep>>

InitProcessing == InitMemory

NextProcessing ==
    \/ \E chat \in Chats : MessageBegin(chat)
    \/ MessageEnd
    \/ \E proc \in 1..MaxProcs : ProcDone(proc)

SpecProcessing == InitProcessing /\ [][NextProcessing]_vars


ActiveTasks == {i \in DOMAIN tasks : tasks[i].active}

\* C1: after any sequence of TaskMemory operations from an empty store at most
\* one task is active; right after create_task the new task is the only active
\* one, and right after a successful set_active(id) task id is the only active one.
C1_AtMostOneActive ==
    /\ Cardinality(ActiveTasks) <= 1
    /\ lastOp.op = "create_task" => ActiveTasks = {lastOp.id}
    /\ (lastOp.op = "set_active" /\ lastOp.existed) => ActiveTasks = {lastOp.id}

\* a create_task and a set_active that each took the active flag from another task
C1_Witness ==
    /\ lastOp.op \in {"create_task", "set_active"}
    /\ lastOp.id \in DOMAIN tasks
    /\ lastOp.otherActive
    /\ Cardinality(DOMAIN tasks) >= 2

\* C2: save_summary(id, s) on an existing task leaves it with summary = s,
\* session_id = None and turn_count = 0, whatever the values were before.
C2_SaveSummaryResets ==
    (lastOp.op = "save_summary" /\ lastOp.existed) =>
        /\ tasks[lastOp.id].summary = lastOp.arg
        /\ tasks[lastOp.id].session_id = None
        /\ tasks[lastOp.id].turn_count = 0

\* a save_summary on a task that had a session pointer, turns and an older summary
C2_Witness ==
    /\ lastOp.op = "save_summary"
    /\ lastOp.existed
    /\ lastOp.was.session_id # None
    /\ lastOp.was.turn_count > 0
    /\ lastOp.was.summary \notin {None, lastOp.arg}

(***************************************************************************)
(* C3, C4: the loops and the trimming of their histories                   *)
(***************************************************************************)
Ended(s) == calls[s].pc = "returned"

\* C3: after the trim_to_budget that ends run / run_codex the history keeps no
\* tool-call record whose tool-result record the trim removed, and no
\* tool-result record whose tool-call record the trim removed.
C3_TrimKeepsPairs ==
    \A s \in Slots :
        Ended(s) =>
            LET h == History(store, calls[s].task)
            IN  /\ CallIds(h) \cap calls[s].cut.results = {}
                /\ ResultIds(h) \cap calls[s].cut.calls = {}

\* C4: a call of run or run_codex whose provider reports exactly one tool call
\* in every round trip makes MAX_TOOL_ITERATIONS round trips, no call makes
\* more, and it returns the text of the last round trip followed by the notice.
C4_StopsAtCeiling ==
    \A s \in Slots :
        LET c == calls[s]
        IN  /\ c.reported.trips <= MAX_TOOL_ITERATIONS
            /\ (Ended(s) /\ c.entry \in {"run", "run_codex"} /\ c.oneTool) =>
                  /\ c.reported.trips = MAX_TOOL_ITERATIONS
                  /\ c.result.num_turns = MAX_TOOL_ITERATIONS
                  /\ c.result.text = c.script.text \o "\n\n(Reached maximum tool call iterations.)"

\* a run_codex that returned after one tool call in each of its round trips
C4_Witness ==
    /\ Ended("direct")
    /\ calls["direct"].entry = "run_codex"
    /\ calls["direct"].oneTool
    /\ calls["direct"].iteration = MAX_TOOL_ITERATIONS
    /\ calls["direct"].result.text = "wip\n\n(Reached maximum tool call iterations.)"

(***************************************************************************)
(* C5, C6, C7: what process returns and leaves in the Task                 *)
(***************************************************************************)
Returned(s) == calls[s].pc = "returned" /\ calls[s].entry = "process"

\* C5: the token totals and the round-trip count process returns on the
\* adapter paths are the sums, over the round trips of the call, of what the
\* provider reported last in each.
C5_TotalsAreSums ==
    \A s \in Slots :
        (Returned(s) /\ calls[s].path \in {"A", "B"}) =>
            /\ calls[s].response.input_tokens = calls[s].reported.input
            /\ calls[s].response.output_tokens = calls[s].reported.output
            /\ calls[s].response.num_turns = calls[s].reported.trips

\* the task the call found was Fresh
Fresh(c) == c.found.session_id = None /\ c.found.summary = None /\ c.found.turn_count = 0

\* the provider did not fail, process did not time out, and what the provider
\* was asked it answered with the text 'hi there' and no tool call
SaidHiThere(c) ==
    /\ c.error # "provider"
    /\ c.ended # "timeout"
    /\ c.reported.trips <= 1
    /\ c.textOnly
    /\ c.path = "claude" => (c.parts = <<"hi there">> /\ c.response.tool_uses = <<>>)

\* C6: on every provider path a process call on a Fresh task that the provider
\* answers with 'hi there' returns that text and leaves the task Resumable,
\* with a session pointer and turn_count 1.
C6_FreshBecomesResumable ==
    \A s \in Slots :
        (Returned(s) /\ Fresh(calls[s]) /\ SaidHiThere(calls[s])) =>
            /\ calls[s].response.text = "hi there"
            /\ calls[s].task \in DOMAIN tasks
            /\ tasks[calls[s].task].session_id # None
            /\ tasks[calls[s].task].turn_count = 1

\* the task the call found was Resumable with turn_count at the threshold, and
\* the call succeeded
SucceededAtThreshold(c) ==
    /\ Resumable(c.found)
    /\ c.found.turn_count = config.compress_after_turns
    /\ c.ended = "finished"

RECURSIVE DeltasOf(_)
DeltasOf(chunks) ==
    IF chunks = <<>> THEN <<>>
    ELSE (IF Head(chunks).choices THEN Head(chunks).tool_calls ELSE <<>>)
         \o DeltasOf(Tail(chunks))

RECURSIVE JoinArguments(_)
JoinArguments(fs) ==
    IF fs = <<>> THEN "" ELSE Head(fs).arguments \o JoinArguments(Tail(fs))

WithIndex(fs, i) == SelectSeq(fs, LAMBDA f : f.index = i)

\* the last non-empty value of a field among the deltas, "" when none supplied it
LastSupplied(fs, field) ==
    LET given == SelectSeq(fs, LAMBDA f : f[field] # "")
    IN  IF given = <<>> THEN "" ELSE given[Len(given)][field]

IndexesOf(fs) == {fs[n].index : n \in 1..Len(fs)}

\* the n-th smallest element of a set of integers
NthSmallest(S, n) == CHOOSE x \in S : Cardinality({y \in S : y < x}) = n - 1

ReadArguments == "{\"file_path\":\"a.txt\"}"

\* C8: at stream end the resolved tool calls are one per distinct index, in
\* ascending index order; a call's arguments are the concatenation in arrival
\* order of the argument fragments of its index (interleaved or not), its id and
\* name those of the deltas that supplied them; the two fragments '{"file_' and
\* 'path":"a.txt"}' of index 0 resolve to exactly one call Read with the full arguments.
C8_FragmentsMerged ==
    stream.pc = "end" =>
        LET fs == DeltasOf(stream.consumed)
            resolved == stream.tool_calls
        IN  /\ Len(resolved) = Cardinality(IndexesOf(fs))
            /\ \A n \in 1..Len(resolved) :
                  LET mine == WithIndex(fs, NthSmallest(IndexesOf(fs), n))
                  IN  /\ resolved[n].arguments = JoinArguments(mine)
                      /\ resolved[n].id = LastSupplied(mine, "id")
                      /\ resolved[n].name = LastSupplied(mine, "name")
            /\ stream.consumed = <<ToolChunk(<<ReadOpen>>), ToolChunk(<<ReadRest>>)>>
                  => resolved = <<[id |-> "call_1", name |-> "Read",
                                arguments |-> ReadArguments]>>

\* a stream in which a delta of index 1 arrives first, between the two argument
\* fragments of index 0
C8_Witness ==
    /\ stream.pc = "end"
    /\ stream.consumed = <<ToolChunk(<<BashOpen, ReadOpen>>), ToolChunk(<<BashOpen, ReadRest>>)>>
    /\ Len(stream.tool_calls) = 2
    /\ stream.tool_calls[1].arguments = ReadArguments
    /\ stream.tool_calls[2].name = "Bash"

(***************************************************************************)
(* C10: cancellation during the first round trip                           *)
(***************************************************************************)
\* the process call of slot s took an adapter path and was cancelled while its
\* first round trip was streaming
CancelledInFirstStream(s) ==
    /\ calls[s].pc = "cancelled"
    /\ calls[s].entry = "process"
    /\ calls[s].path \in {"A", "B"}
    /\ calls[s].reported.trips = 0

NewEntries(s) ==
    LET h == History(store, calls[s].task)
    IN  SubSeq(h, Len(calls[s].before) + 1, Len(h))

IsReply(e) ==
    \/ Get(e, "role") \in {"assistant", "tool"}
    \/ Get(e, "type") \in {"function_call", "function_call_output", "message"}

InFlightFor(t) ==
    {s \in Slots : calls[s].entry = "process" /\ InFlight(calls[s]) /\ calls[s].task = t}

\* C9: for every task at most one process call is in flight, whatever the
\* order of the chats' messages and commands and of the scheduler's executions.
C9_OneCallPerTask == \A t \in TaskIds : Cardinality(InFlightFor(t)) <= 1

(***************************************************************************)
(* C11: what a cancelled process call leaves for the next call             *)
(***************************************************************************)
\* C11: after a process call was cancelled, the history the next call of the
\* task reads has the result record of every tool call its tool-call records name.
C11_CancelKeepsPairs ==
    \A s \in Slots :
        (calls[s].pc = "cancelled" /\ calls[s].entry = "process") =>
            CallIds(History(store, calls[s].task)) \subseteq ResultIds(History(store, calls[s].task))

(***************************************************************************)
(* C12: process and the exceptions of its steps                            *)
(***************************************************************************)
\* C12: no exception leaves process: a call that was not cancelled comes to
\* its return, whatever failed in it.
C12_ProcessNeverRaises == \A s \in Slots : calls[s].pc # "escaped"

(***************************************************************************)
(* C13, C14: a process call that timed out                                 *)
(***************************************************************************)
TimedOut(s) == Returned(s) /\ calls[s].ended = "timeout"

\* C13: on every provider path the text of a process call that timed out is
\* exactly the timeout notice.
C13_TimeoutTextIsNotice ==
    \A s \in Slots : TimedOut(s) => calls[s].response.text = TimeoutNotice

\* the history of task t on disk
Persisted(st, t) == IF t \in DOMAIN st.disk THEN st.disk[t] ELSE <<>>

\* C14: when a process call on an adapter path has timed out, the history on
\* disk holds the tool-call record and the result record of every tool call
\* that was executed during the call.
C14_ExecutedToolsPersisted ==
    \A s \in Slots :
        (TimedOut(s) /\ calls[s].path \in {"A", "B"}) =>
            /\ calls[s].executed \subseteq CallIds(Persisted(store, calls[s].task))
            /\ calls[s].executed \subseteq ResultIds(Persisted(store, calls[s].task))

(***************************************************************************)
(* C15 .. C19: compression and deletion                                    *)
(***************************************************************************)
\* C15: no task has both a summary and a session pointer.
C15_SummaryOrSession ==
    \A i \in DOMAIN tasks : ~(tasks[i].summary # None /\ tasks[i].session_id # None)

\* the force_compress call of slot s has returned
Compressed(s) == calls[s].entry = "compress" /\ calls[s].pc = "returned"

\* C16: a compression whose provider did not fail has made exactly one round
\* trip and has executed no tool.
C16_CompressionOneRoundTrip ==
    \A s \in Slots :
        (Compressed(s) /\ calls[s].ended = "finished") =>
            /\ calls[s].reported.trips = 1
            /\ calls[s].result.tool_uses = <<>>
            /\ calls[s].executed = {}

\* C17: after a compression whose round trip failed or returned empty text,
\* the task's record and its history are what they were before the attempt.
C17_FailedCompressionChangesNothing ==
    \A s \in Slots :
        (/\ Compressed(s)
         /\ calls[s].task \in DOMAIN tasks
         /\ \/ calls[s].ended = "raised"
            \/ calls[s].ended = "finished" /\ calls[s].result.text = "") =>
            /\ tasks[calls[s].task] = calls[s].found
            /\ History(store, calls[s].task) = calls[s].before

\* C18: force_compress on a task without session pointer (Claude path) or with
\* a history of at most the system entry (message-store paths) has returned
\* None, with no request made and the task's record and history as they were;
\* on every other task, whatever its turn count, it attempts a compression.
C18_ForceCompressGuard ==
    \A s \in Slots :
        LET c == calls[s]
            nothing == IF config.path = "claude" THEN c.found.session_id \in {None, ""}
                       ELSE Len(c.before) <= 1
        IN  c.entry = "compress" =>
                IF nothing
                THEN /\ c.pc = "returned" /\ c.ended = "nothing"
                     /\ c.response.text = None
                     /\ c.reported.trips = 0
                     /\ c.task \in DOMAIN tasks => tasks[c.task] = c.found
                     /\ History(store, c.task) = c.before
                ELSE \/ InFlight(c)
                     \/ c.pc = "returned" /\ c.ended \in {"finished", "raised"}

\* a compression that was made, and gave a summary, for a task whose turn count
\* was below the threshold
C18_Witness ==
    /\ Compressed("direct")
    /\ calls["direct"].ended = "finished"
    /\ calls["direct"].found.turn_count < config.compress_after_turns
    /\ calls["direct"].response.text \notin {None, ""}

\* C19: after delete_task of an existing task, the task's record, its summary
\* and its history, in memory and on disk, are gone.
C19_DeleteRemovesAll ==
    (lastOp.op = "delete_task" /\ lastOp.existed) =>
        /\ lastOp.id \notin DOMAIN tasks
        /\ get_summary(tasks, summaryFiles, lastOp.id) = None
        /\ History(store, lastOp.id) = <<>>
        /\ Persisted(store, lastOp.id) = <<>>

(***************************************************************************)
(* C20: the output items of adapter B                                      *)
(***************************************************************************)
\* the entries of items occur in h, in the order of items
RECURSIVE Embeds(_, _)
Embeds(h, items) ==
    IF items = <<>> THEN TRUE
    ELSE IF h = <<>> THEN FALSE
    ELSE IF Head(h) = Head(items) THEN Embeds(Tail(h), Tail(items))
    ELSE Embeds(Tail(h), items)

\* C20: when a call of the adapter-B loop has returned, every output item its
\* round trips completed is in the history on disk, unchanged and in arrival order.
C20_ItemsAppendedVerbatim ==
    \A s \in Slots :
        (Ended(s) /\ calls[s].path = "B") =>
            Embeds(Persisted(store, calls[s].task), calls[s].items)

(***************************************************************************)
(* C21: the tools of one loop iteration                                    *)
(***************************************************************************)
\* what the adapter reported in round trip number n of call c when the
\* provider asked for tools: the tool calls, and the entries the loop appends
\* for them before it dispatches (the call record)
ReportedCalls(c, n) ==
    IF c.path = "A"
    THEN StreamCompletion(ChunksOf(c.script, "tools", c.run, n)).tool_calls
    ELSE StreamResponses(EventsOf(c.script, "tools", c.run, n)).func_calls
CallRecord(c, n) ==
    IF c.path = "A"
    THEN LET r == StreamCompletion(ChunksOf(c.script, "tools", c.run, n))
         IN  <<AssistantCalls(r.text, r.tool_calls)>>
    ELSE StreamResponses(EventsOf(c.script, "tools", c.run, n)).output_items

\* the identifier of a reported tool call, and of a result entry
IdOf(tc) == IF "id" \in DOMAIN tc THEN tc.id ELSE tc.call_id
ResultIdOf(e) ==
    IF Get(e, "role") = "tool" THEN e.tool_call_id
    ELSE IF Get(e, "type") = "function_call_output" THEN e.call_id ELSE None

\* the history of call c ends with the call record of round trip n followed by
\* one result entry for each of the first done reported calls, in their order
EndsWithResults(c, n, done) ==
    LET tcs == ReportedCalls(c, n)
        record == CallRecord(c, n)
        h == store.lists[c.obj]
        tail == LastN(h, Len(record) + done)
    IN  /\ done <= Len(tcs)
        /\ Len(h) >= Len(record) + done
        /\ SubSeq(tail, 1, Len(record)) = record
        /\ \A i \in 1..done : ResultIdOf(tail[Len(record) + i]) = IdOf(tcs[i])

\* C21: while the tools of an iteration are dispatched, the call being
\* dispatched is the first reported call that has no result entry yet and the
\* history ends with the call record and the results of the calls before it,
\* in reported order; when the next round trip is issued the history ends
\* with the call record and exactly one result entry per reported call, in
\* reported order.
C21_ResultsInReportedOrder ==
    \A s \in Slots :
        LET c == calls[s]
        IN  /\ c.pc = "tool" =>
                LET tcs == ReportedCalls(c, c.iteration + 1)
                    done == Len(tcs) - Len(c.pending)
                IN  /\ done >= 0
                    /\ c.pending = SubSeq(tcs, done + 1, Len(tcs))
                    /\ EndsWithResults(c, c.iteration + 1, done)
            /\ (c.pc = "stream" /\ c.iteration >= 1) =>
                EndsWithResults(c, c.iteration, Len(ReportedCalls(c, c.iteration)))

\* the next round trip is about to be issued after an iteration that
\* dispatched MaxTools tools
C21_Witness ==
    LET c == calls["direct"]
    IN  /\ c.pc = "stream" /\ c.iteration >= 1
        /\ Len(ReportedCalls(c, c.iteration)) = MaxTools
        /\ c.executed # {}
        /\ EndsWithResults(c, c.iteration, MaxTools)

(***************************************************************************)
(* C22: arguments payloads that are not an argument map                    *)
(***************************************************************************)
\* the payload parses into an argument map (a JSON object)
IsArgumentMap(arguments) ==
    json_loads(arguments).error = None /\ json_loads(arguments).value.type = "dict"

\* the arguments payload of the tool calls of call c
PayloadOf(c) == c.script.arguments[1] \o c.script.arguments[2]

\* C22: a call of the loop whose tool calls carry a payload that cannot be
\* parsed into an argument map is not aborted by it: it ends raised only when
\* the endpoint refused a request, and when the next round trip is issued
\* every reported call has its result entry.
C22_MalformedArgumentsDispatched ==
    \A s \in Slots :
        LET c == calls[s]
        IN  (c.entry \in {"run", "run_codex"} /\ ~IsArgumentMap(PayloadOf(c))) =>
                /\ c.pc = "raised" => c.answer # <<>>
                /\ (c.pc = "stream" /\ c.iteration >= 1) =>
                       EndsWithResults(c, c.iteration, Len(ReportedCalls(c, c.iteration)))

\* the same for the payloads json.loads rejects
C22_UnparsableJsonDispatched ==
    \A s \in Slots :
        LET c == calls[s]
        IN  (c.entry \in {"run", "run_codex"}
             /\ json_loads(PayloadOf(c)).error = "JSONDecodeError") =>
                /\ c.pc = "raised" => c.answer # <<>>
                /\ (c.pc = "stream" /\ c.iteration >= 1) =>
                       EndsWithResults(c, c.iteration, Len(ReportedCalls(c, c.iteration)))

(***************************************************************************)
(* C23: the session pointer and calls that fail                            *)
(***************************************************************************)
\* C23: when a process call has ended in a timeout or a provider error, the
\* session pointer of its task is what the call found.
C23_FailedCallKeepsSession ==
    \A s \in Slots :
        (/\ Returned(s)
         /\ calls[s].ended \in {"timeout", "raised"}
         /\ calls[s].task \in DOMAIN tasks) =>
            tasks[calls[s].task].session_id = calls[s].found.session_id

(***************************************************************************)
(* C24: an answer of the adapter-B endpoint that is not 200                *)
(***************************************************************************)
\* C24: a call whose request the adapter-B endpoint answered with a status
\* other than 200 has failed with an error that carries the status and the
\* response body; no event was consumed and no tool executed for that round
\* trip; when the call is a process call, its response text is that error
\* prefixed "Error: ".
C24_Non200IsProviderError ==
    \A s \in Slots :
        LET c == calls[s]
        IN  c.answer # <<>> =>
                /\ c.pc = "raised" \/ (c.pc = "returned" /\ c.ended = "raised")
                /\ c.error = "Responses API error (" \o ToString(c.answer[1].status)
                                 \o "): " \o c.answer[1].body
                /\ c.reported.trips = c.iteration
                /\ Cardinality(c.executed) = Len(c.result.tool_uses)
                /\ c.pending = <<>>
                /\ c.entry = "process" => c.response.text = ErrorText(c.error)

(***************************************************************************)
(* C25: the first entry of a history                                       *)
(***************************************************************************)
\* C25: the history of the task of a call of run or run_codex begins, when it
\* is not empty, with the system entry, and that entry holds the instruction
\* text of the call.
C25_FirstEntryIsInstructions ==
    \A s \in Slots :
        LET c == calls[s]
            h == History(store, c.task)
        IN  (c.entry \in {"run", "run_codex"} /\ c.path = config.path /\ h # <<>>) =>
                /\ Get(h[1], "role") = "system"
                /\ h[1].content = c.instructions

\* the same for adapter A alone, on a history adapter B did not begin
C25_AdapterAFirstEntry ==
    \A s \in Slots :
        LET c == calls[s]
            h == History(store, c.task)
        IN  (c.entry = "run" /\ c.path = config.path /\ h # <<>>
             /\ (c.before = <<>> \/ Get(c.before[1], "role") = "system")) =>
                /\ Get(h[1], "role") = "system"
                /\ h[1].content = c.instructions

C26_WitnessEmptyList ==
    /\ config.allowed_users = {}
    /\ lastOp.seq = MaxUpdates
    /\ lastOp.user \in Users

(***************************************************************************)
(* C27: schedule files in the documented format                            *)
(***************************************************************************)
\* the file is in the format the scheduling prompt documents
IsDocumented(f) == "once" \in DOMAIN f

\* the executions of schedule id so far
Fired(id) == Cardinality({i \in DOMAIN sent : sent[i].id = id})

\* C27: when a _tick has completed at or after the first firing time of an
\* enabled schedule file in the documented format, the schedule has been
\* executed; a file with once = true is gone after its execution, a file
\* with once = false is kept.
C27_DocumentedScheduleFires ==
    \A id \in DOMAIN schedules :
        LET f == schedules[id]
        IN  (IsDocumented(f) /\ f.enabled /\ NextFire(f.cron, f.created_at) <= lastTick) =>
                /\ ~f.once
                /\ Fired(id) >= 1

\* the same for the files store.add writes, which have no "once"
C27_AddedScheduleFires ==
    \A id \in DOMAIN schedules :
        LET f == schedules[id]
        IN  (~IsDocumented(f) /\ f.enabled /\ NextFire(f.cron, f.created_at) <= lastTick) =>
                Fired(id) >= 1

\* C28: the text _build_system_prompt returns is, joined by blank lines and in
\* this order: the identity block; the skills block unless it is empty; the
\* scheduling block exactly when a chat id is given; and one
\* <previous-context> block exactly when the task cannot be resumed (it has no
\* session pointer, or it has a summary) and a stored summary or a last
\* response exists, with the summary before the last response inside it.
C28_Expected(task, summary, last_resp, skills_section, chat_id, is_claude) ==
    LET notResumable == task.session_id = None \/ task.summary # None
        inside == (IF summary # None THEN <<"## Conversation Summary\n" \o summary>> ELSE <<>>)
                  \o (IF last_resp # None
                      THEN <<"## Your Last Response (for reference)\n" \o last_resp>>
                      ELSE <<>>)
        blocks == <<IF is_claude THEN IDENTITY_PROMPT ELSE IDENTITY_PROMPT_OPENAI>>
                  \o (IF skills_section = "" THEN <<>> ELSE <<skills_section>>)
                  \o (IF chat_id = None THEN <<>> ELSE <<SCHEDULING_PROMPT_TEMPLATE(chat_id)>>)
                  \o (IF notResumable /\ (summary # None \/ last_resp # None)
                      THEN <<"<previous-context>\n" \o CONTEXT_INTRO \o "\n\n"
                             \o JoinWith(inside, "\n\n") \o "\n</previous-context>">>
                      ELSE <<>>)
    IN  JoinWith(blocks, "\n\n")

C28_PromptBlocksInOrder ==
    lastOp.op = "build_system_prompt" =>
        lastOp.result = C28_Expected(lastOp.task,
                                     get_summary(tasks, summaryFiles, lastOp.id),
                                     get_last_response(lastResponse, lastOp.id),
                                     config.skills_section, lastOp.chat_id,
                                     config.path = "claude")

\* a prompt with all four blocks was built: skills, a chat id, and a compressed
\* task that has a session pointer again, a summary and a last response
C28_Witness ==
    /\ lastOp.op = "build_system_prompt"
    /\ config.skills_section # ""
    /\ lastOp.chat_id # None
    /\ lastOp.task.session_id # None
    /\ lastOp.task.summary # None
    /\ lastOp.id \in DOMAIN lastResponse

\* a prompt was built for a task that can be resumed and has a last response
C28_WitnessResumable ==
    /\ lastOp.op = "build_system_prompt"
    /\ lastOp.task.session_id # None
    /\ lastOp.task.summary = None
    /\ lastOp.id \in DOMAIN lastResponse

\* sub occurs in s
Contains(s, sub) ==
    \E i \in 1..(Len(s) - Len(sub) + 1) : SubSeq(s, i, i + Len(sub) - 1) = sub

\* the calls of process on the Claude path that have built their options
ClaudeCalls ==
    {s \in Slots : /\ calls[s].entry = "process"
                   /\ calls[s].path = "claude"
                   /\ calls[s].instructions # None}

\* C29: on the Claude path a process call resumes the provider session (its
\* options carry the Task's session pointer) exactly when the Task it found has
\* a session pointer and no summary; a call that finds the Task as a
\* compression left it (a summary, no session pointer) passes no resume pointer
\* and has the summary in its instruction text.
C29_ResumeUnlessCompressed ==
    \A s \in ClaudeCalls :
        LET c == calls[s]
        IN  /\ IF c.found.session_id # None /\ c.found.summary = None
               THEN c.resume = c.found.session_id
               ELSE c.resume = None
            /\ (c.found.summary # None /\ c.found.session_id = None) =>
                   /\ c.resume = None
                   /\ Contains(c.instructions, c.found.summary)

\* the first process call after a compression has built its options
C29_Witness ==
    \E s \in ClaudeCalls :
        /\ calls[s].found.summary # None
        /\ calls[s].found.session_id = None
        /\ calls[s].pc = "returned"

\* a process call has resumed the session of its Task
C29_WitnessResumed ==
    \E s \in ClaudeCalls : calls[s].resume # None /\ calls[s].pc = "returned"

\* the step is the return of a process call of the console
ProcessReturns ==
    /\ calls'["direct"] # calls["direct"]
    /\ calls'["direct"].entry = "process"
    /\ calls'["direct"].pc = "returned"

TurnsOf(ts, t) == IF t \in DOMAIN ts THEN ts[t].turn_count ELSE 0

\* the step is a save_summary for task t
SummarySaved(t) ==
    /\ tasks'[t].turn_count = 0
    /\ tasks'[t].summary # None
    /\ tasks'[t].session_id = None
    /\ t \in DOMAIN summaryFiles' /\ summaryFiles'[t] = tasks'[t].summary

\* C30: the step in which a process call returns (after a success, a provider
\* error or a timeout) raises the turn counter of the call's Task by exactly 1,
\* and no step lowers the turn counter of a Task except a save_summary, which
\* sets it to 0.
C30_ReturnCountsOneTurn ==
    [][/\ ProcessReturns =>
            /\ calls'["direct"].task \in DOMAIN tasks'
            /\ TurnsOf(tasks', calls'["direct"].task)
                   = TurnsOf(tasks, calls'["direct"].task) + 1
       /\ \A t \in DOMAIN tasks \cap DOMAIN tasks' :
            tasks'[t].turn_count >= tasks[t].turn_count \/ SummarySaved(t)]_vars

\* process calls have returned after a success, after a provider error and
\* after a timeout, and the Task's counter stands at the number of them
C30_Witness ==
    /\ calls["direct"].entry = "process"
    /\ calls["direct"].pc = "returned"
    /\ calls["direct"].ended = "timeout"
    /\ calls["direct"].task \in DOMAIN tasks
    /\ tasks[calls["direct"].task].turn_count = MaxAgentRuns

\* what C31 says trim_to_budget leaves of the history b under the budget n
C31_Expected(b, n) ==
    IF Len(b) <= n THEN b
    ELSE IF Get(b[1], "role") = "system" THEN <<b[1]>> \o LastN(Tail(b), n)
    ELSE LastN(b, n)

\* C31: trim_to_budget(task, N) leaves a history of at most N entries as it
\* is; of a longer one it leaves the leading system entry (if the first entry
\* has role system) followed by the last N of the other entries in their
\* order, so at most N + 1 entries.
C31_TrimKeepsLastN ==
    lastOp.op = "trim_to_budget" =>
        /\ History(store, 1) = C31_Expected(lastOp.before, lastOp.max_messages)
        /\ Len(lastOp.before) > lastOp.max_messages =>
               Len(History(store, 1)) <= lastOp.max_messages + 1
        /\ Persisted(store, 1) = History(store, 1)

\* the same for budgets of at least 1
C31_TrimWithPositiveBudget ==
    (lastOp.op = "trim_to_budget" /\ lastOp.max_messages >= 1) =>
        /\ History(store, 1) = C31_Expected(lastOp.before, lastOp.max_messages)
        /\ Len(lastOp.before) > lastOp.max_messages =>
               Len(History(store, 1)) <= lastOp.max_messages + 1

\* C32: a call on adapter B whose event stream carried a 'data: ' line with a
\* payload that is not JSON ends with an error (the RuntimeError process would
\* turn into 'Error: ...'); the line is not skipped.
C32_MalformedFrameIsError ==
    \A s \in Slots :
        (calls[s].path = "B" /\ calls[s].malformed > 0) =>
            /\ calls[s].pc = "raised"
            /\ calls[s].error # None

(***************************************************************************)
(* C33: last_run after an execution, and disabled schedules                *)
(***************************************************************************)
\* schedules/<id>.json is there in fs, loads, and is enabled
FileEnabled(fs, id) == id \in DOMAIN fs /\ load(id, fs[id]) # <<>> /\ load(id, fs[id])[1].enabled

\* this step is the return of _execute
ExecuteReturns == sweep.pc = "execute" /\ sweep' # sweep

\* this step ends with _tick awaiting a new _execute
ExecuteBegins == sweep'.pc = "execute" /\ sweep' # sweep

\* when _execute returns, the schedule's file, if it still loads, has last_run
\* equal to the time the execution began at, whatever the outcome was
LastRunIsStart ==
    ExecuteReturns =>
        LET id == Head(sweep.todo).id
        IN  (id \in DOMAIN schedules' /\ load(id, schedules'[id]) # <<>>) =>
                load(id, schedules'[id])[1].last_run = sweep.started

\* an execution begins only for a fire time later than the beginning of
\* every earlier execution of the schedule
NoRetry ==
    ExecuteBegins =>
        LET s == Head(sweep'.todo)
            base == IF s.last_run # 0 THEN s.last_run ELSE s.created_at
        IN  \A i \in DOMAIN sent' : sent'[i].id = s.id => NextFire(s.cron, base) > sent'[i].at

\* an execution begins only for a schedule whose file is enabled
NeverDisabled == ExecuteBegins => FileEnabled(schedules', Head(sweep'.todo).id)

\* C33: when _execute returns, last_run of the schedule is the time that
\* execution began at, whether process and send_fn returned or raised; no
\* later tick executes the schedule again for the same fire time; and no
\* execution begins for a schedule that is disabled.
C33_LastRunSetAndDisabledSkipped == [][LastRunIsStart /\ NoRetry /\ NeverDisabled]_vars

\* the part of C33 about last_run and retries
C33_FailedExecutionNotRetried == [][LastRunIsStart /\ NoRetry]_vars

\* a failed execution has been followed by a completed tick at a later minute
C33_WitnessFailedThenTick ==
    \E i \in DOMAIN sent : sent[i].outcome # "delivered" /\ sent[i].at < lastTick

(***************************************************************************)
(* C34: the entry of _processing for a running processing task             *)
(***************************************************************************)
\* the processing task proc is in its try block: it has not ended and was
\* not cancelled
Running(proc) == processing.procs[proc].state = "running"

\* a newer processing task was created for the chat of proc
Superseded(proc) ==
    \E q \in DOMAIN processing.procs :
        q > proc /\ processing.procs[q].chat = processing.procs[proc].chat

\* C34: while a processing task created for a chat is running and no newer
\* task was created for the chat, _processing[chat_id] is that task: the done
\* callback of an older task does not remove the entry of a newer one, so the
\* handler of a later message finds and cancels the running task, and no two
\* tasks of one chat are running together.
C34_EntryIsRunningTask ==
    /\ \A proc \in DOMAIN processing.procs :
          (Running(proc) /\ ~Superseded(proc)) =>
              processing.entry[processing.procs[proc].chat] = proc
    /\ \A p, q \in DOMAIN processing.procs :
          (Running(p) /\ Running(q) /\ processing.procs[p].chat = processing.procs[q].chat) =>
              p = q

(***************************************************************************)
(* C35: the tool allowlist                                                 *)
(***************************************************************************)
\* the names of the tools call c has run an executor for
ToolsRun(c) == {c.result.tool_uses[i] : i \in DOMAIN c.result.tool_uses} \cap Executors

\* C35: the loops of run and run_codex run the executor of no tool whose name
\* is outside config.allowed_tools.
C35_OnlyAllowedToolsRun ==
    \A s \in Slots : ToolsRun(calls[s]) \subseteq config.allowed_tools

\* the tools that are run are among those the request offered
C35_OfferedToolsRunWhenAllAllowed ==
    \A s \in Slots :
        config.allowed_tools = DefaultTools =>
            ToolsRun(calls[s]) \subseteq get_tool_schemas(config.allowed_tools)

(***************************************************************************)
(* C36: what force_compress returns                                        *)
(***************************************************************************)
\* the force_compress call of slot s has returned
CompressReturned(s) == calls[s].entry = "compress" /\ calls[s].pc = "returned"

\* the round trip of the call came to its end with a text that is not empty
CompressionSucceeded(c) == c.ended = "finished" /\ c.result.text # ""

\* C36: force_compress returns a summary only if the compression of that very
\* call succeeded; when its round trip raised or gave an empty text it returns
\* None, also for a Task that had a summary before the call.
C36_SummaryOnlyFromThisCall ==
    \A s \in Slots :
        (CompressReturned(s) /\ calls[s].response.text # None) =>
            CompressionSucceeded(calls[s])

\* the same for the Tasks that had no summary when force_compress was called
C36_NullAfterFailedFirstCompression ==
    \A s \in Slots :
        (CompressReturned(s) /\ calls[s].response.text # None
            /\ calls[s].found.summary = None) =>
            CompressionSucceeded(calls[s])

(***************************************************************************)
(* C37: the history in memory and on disk when process has returned        *)
(***************************************************************************)
\* the process call of slot s went to an adapter and has returned after its
\* loop ended as how says
ReturnedAfter(s, how) ==
    /\ calls[s].entry = "process"
    /\ calls[s].path \in {"A", "B"}
    /\ calls[s].pc = "returned"
    /\ calls[s].ended \in how

\* the MessageStore holds for the Task of slot s what its file holds
InMemoryIsOnDisk(s) == History(store, calls[s].task) = Persisted(store, calls[s].task)

\* C37: whenever a process call on adapter A or adapter B has returned, after
\* a success, a provider error or a timeout, the history the MessageStore
\* holds in memory for the Task equals the history in the Task's file.
C37_HistoryInMemoryIsOnDisk ==
    \A s \in Slots : ReturnedAfter(s, {"finished", "raised", "timeout"}) => InMemoryIsOnDisk(s)

\* the same for the calls that returned a success
C37_HistoryOnDiskAfterSuccess ==
    \A s \in Slots : ReturnedAfter(s, {"finished"}) => InMemoryIsOnDisk(s)

\* a process call on an adapter has returned a success after running a tool
C37_WitnessSuccess ==
    \E s \in Slots : ReturnedAfter(s, {"finished"}) /\ calls[s].executed # {}

(***************************************************************************)
(* C38: a Task that has a summary                                          *)
(***************************************************************************)
\* in this step slot s begins a process call on the Claude path
ClaudeCallBegins(s) ==
    /\ ~InFlight(calls[s])
    /\ calls'[s] # calls[s]
    /\ calls'[s].entry = "process"
    /\ calls'[s].path = "claude"
    /\ calls'[s].instructions # None

\* the Task keeps its summary
StaysCompressed ==
    \A t \in DOMAIN tasks :
        tasks[t].summary # None => (t \in DOMAIN tasks' /\ tasks'[t].summary # None)

\* a call that begins on a Task that has a summary passes no resume pointer
NoResumeOnceCompressed ==
    \A s \in Slots :
        (ClaudeCallBegins(s) /\ calls'[s].task \in DOMAIN tasks
            /\ tasks[calls'[s].task].summary # None) => calls'[s].resume = None

\* needs_compression is false for every Task that has a summary
NeverNeedsCompression ==
    \A t \in DOMAIN tasks' :
        tasks'[t].summary # None =>
            ~needs_compression(tasks'[t], config'.compress_after_turns)

\* C38: on the Claude path, once a Task has a summary it keeps one: every
\* process call that begins on it later passes no resume pointer, however many
\* session pointers the Task has received since, and needs_compression is
\* not true of it again.
C38_CompressedNeverResumed ==
    [][StaysCompressed /\ NoResumeOnceCompressed /\ NeverNeedsCompression]_vars

\* a process call has begun, without a resume pointer, on a Task that has a
\* summary, a session pointer received after the compression, and as many
\* turns as the threshold
C38_Witness ==
    \E s \in ClaudeCalls :
        /\ calls[s].found.summary # None
        /\ calls[s].found.session_id # None
        /\ calls[s].found.turn_count >= config.compress_after_turns
        /\ calls[s].resume = None

(***************************************************************************)
(* C39: the adapter force_compress summarizes with                         *)
(***************************************************************************)
\* in this step force_compress sends its summarization request from slot s
CompressionBegins(s) ==
    /\ ~InFlight(calls[s])
    /\ calls'[s].entry = "compress"
    /\ InFlight(calls'[s])

\* C39: force_compress on a task that is not on the Claude path sends its
\* summarization through the adapter process uses: adapter B in OAuth mode,
\* adapter A otherwise.
C39_CompressionUsesProcessAdapter ==
    [][\A s \in Slots :
          (CompressionBegins(s) /\ config.path # "claude") => calls'[s].path = config.path]_vars

\* the same in API-key mode alone
C39_CompressionUsesRunInKeyMode ==
    [][\A s \in Slots :
          (CompressionBegins(s) /\ config.path = "A") => calls'[s].path = "A"]_vars

====
